---- MODULE Spec2Model ----
(***************************************************************************)
(* Prompt Manager: the hybrid search of App.filterAndSortPrompts, the      *)
(* embedding lifecycle of SemanticSearch / App.persistPrompt, and the      *)
(* file-per-document VaultRepo.                                            *)
(*                                                                         *)
(* Text is a sequence of one-character strings.  Similarity scores are     *)
(* kept in hundredths (vector components in tenths), so 0.25 is 25.        *)
(***************************************************************************)
EXTENDS Integers, Sequences, FiniteSets, Bags, TLC

VARIABLES
    \* ---- App.state (src/app.js:29-40) and the last rendered list
    prompts,        \* state.prompts
    filter,         \* state.filter {search, category, client, status, sort}
    semanticMode,   \* state.semanticMode
    searchTimeout,  \* a debounced renderSidebar is pending
    rendered,       \* the inputs filterAndSortPrompts read in its last call
    filtered,       \* the list filterAndSortPrompts returned in its last call
    \* ---- SemanticSearch (src/src/core/SemanticSearch.js:14-21)
    isLoaded, isLoading, loadError, pipe, minScore,
    \* ---- callers of SemanticSearch.init and the pipeline() calls they made
    initPc,         \* per caller: "idle", or "awaiting" the pipeline() promise
    initResult,     \* per caller: what its last init() returned
    pipelineCalls,  \* pipeline() calls in flight
    loadsStarted,   \* pipeline() calls made so far
    lastInit,       \* the last init() call: the flags it saw, whether it started a load
    \* ---- VaultRepo (src/src/repo/VaultRepo.js:10-15) and its directory
    dirHandle,      \* a directory has been selected
    isConnected,
    fileMap,        \* id -> file name, NoFile when the id has no entry
    dir,            \* the directory: file name -> file content
    vaultOut,       \* the last VaultRepo call and its outcome
    \* ---- App: editor, storage mode, the IndexedDB prompts store
    storageMode,    \* state.storageMode
    store,          \* IndexedDB object store 'prompts': id -> prompt
    currentPrompt,  \* state.currentPrompt: <<p>>, or <<>> for null
    editorShared,   \* state.currentPrompt is the very object held in state.prompts
    inputs,         \* the editor's form fields (dom.inputs)
    isDirty,        \* state.isDirty
    idsUsed,        \* ids generateId has handed out
    reindexQueue,   \* the objects a reindexStalePrompts loop has yet to persist: obj, and
                    \* live: obj is still the object state.prompts holds for its id
    \* ---- a direct call of a function of the core, and what it returned
    unitCall,
    \* ---- IndexedDBRepo (src/src/repo/IndexedDBRepo.js) and the browser's database
    idb,            \* the open request of init(), its promise, this.db, the database
    objectStores,   \* the database's committed content: store name -> keys held
    tx,             \* the transaction of the last put / delete / clearAll and its promise
    \* ---- App: smart collections
    collections,        \* state.collections
    activeCollectionId, \* state.activeCollectionId, NoCollection for null
    filterSharedWith,   \* the id of the collection whose filters object is the very
                        \* object state.filter holds, NoCollection when there is none
    collectionStore,    \* IndexedDB object store 'collections': the records it holds
    \* ---- asynchronous calls that have begun and not yet returned
    scan,           \* a VaultRepo.loadAll() between its awaits
    calls,          \* App's async handlers between their awaits, in the order they began
    heap,           \* the prompt objects those handlers and App.state refer to by place
    view,           \* the editor pane is shown, the unsaved-changes modal is open,
                    \* pendingNavigation and pendingNew
    handled         \* the handler that ran last, and what it wrote or removed

searchVars == <<prompts, filter, semanticMode, searchTimeout, rendered, filtered>>
semVars == <<isLoaded, isLoading, loadError, pipe, minScore>>
initVars == <<initPc, initResult, pipelineCalls, loadsStarted, lastInit>>
vaultVars == <<dirHandle, isConnected, fileMap, dir, vaultOut>>
appVars == <<storageMode, store, currentPrompt, editorShared, inputs, isDirty, idsUsed,
            reindexQueue>>
unitVars == <<unitCall>>
idbVars == <<idb, objectStores, tx>>
collVars == <<collections, activeCollectionId, filterSharedWith, collectionStore>>
flowVars == <<scan, calls, heap, view, handled>>
vars == <<searchVars, semVars, initVars, vaultVars, appVars, unitVars, idbVars, collVars,
          flowVars>>

----------------------------------------------------------------------------
(* Bounds *)
MaxPrompts == 2

----------------------------------------------------------------------------
(* Text helpers *)

NoText == <<>>

\* String.prototype.toLowerCase on the model's alphabet
LowerChar(c) ==
    CASE c = "A" -> "a"
      [] c = "B" -> "b"
      [] c = "N" -> "n"
      [] c = "P" -> "p"
      [] c = "X" -> "x"
      [] c = "Y" -> "y"
      [] OTHER -> c

ToLowerCase(s) == [i \in 1..Len(s) |-> LowerChar(s[i])]

\* String.prototype.includes
Includes(hay, needle) ==
    \E i \in 0..(Len(hay) - Len(needle)) :
        SubSeq(hay, i + 1, i + Len(needle)) = needle

\* String.prototype.localeCompare: letters first (case ignored), then case
\* (lower before upper); a proper prefix sorts first.
IsUpper(c) == c \in {"A", "B", "X", "Y"}
CharRank(c) ==
    CASE LowerChar(c) = "a" -> 1
      [] LowerChar(c) = "b" -> 2
      [] LowerChar(c) = "x" -> 3
      [] LowerChar(c) = "y" -> 4
      [] OTHER -> 0
CaseRank(c) == IF IsUpper(c) THEN 1 ELSE 0

RECURSIVE LexCompare(_, _, _)
LexCompare(a, b, upper) ==
    IF a = <<>> /\ b = <<>> THEN 0
    ELSE IF a = <<>> THEN -1
    ELSE IF b = <<>> THEN 1
    ELSE LET ka == IF upper THEN CaseRank(Head(a)) ELSE CharRank(Head(a))
             kb == IF upper THEN CaseRank(Head(b)) ELSE CharRank(Head(b))
         IN  IF ka < kb THEN -1
             ELSE IF ka > kb THEN 1
             ELSE LexCompare(Tail(a), Tail(b), upper)

LocaleCompare(a, b) ==
    LET primary == LexCompare(a, b, FALSE)
    IN  IF primary # 0 THEN primary ELSE LexCompare(a, b, TRUE)

----------------------------------------------------------------------------
(* Array.prototype.sort: stable; cmp[i, j] is the comparator's value on the *)
(* elements at positions i and j of the array being sorted.                  *)

\* x goes in front of the elements at the end of sorted that compare greater
\* than it: passed counts them, from the end up to the first that does not
Insert(sorted, x, cmp) ==
    LET n == Len(sorted)
        passed == CHOOSE d \in 0..n :
                      /\ d = n \/ ~(cmp[sorted[n - d], x] > 0)
                      /\ \A q \in (n - d + 1)..n : cmp[sorted[q], x] > 0
    IN  SubSeq(sorted, 1, n - passed) \o <<x>> \o SubSeq(sorted, n - passed + 1, n)

\* the positions lo..hi inserted into sorted one after another, the lower
\* half before the upper half is begun
RECURSIVE SortIdx(_, _, _, _)
SortIdx(sorted, lo, hi, cmp) ==
    IF lo > hi THEN sorted
    ELSE IF lo = hi THEN Insert(sorted, lo, cmp)
    ELSE LET mid == (lo + hi) \div 2
         IN  CHOOSE all \in {SortIdx(half, mid + 1, hi, cmp) :
                                half \in {SortIdx(sorted, lo, mid, cmp)}} : TRUE

ArraySort(s, cmp) ==
    LET idx == SortIdx(<<>>, 1, Len(s), cmp)
    IN  [i \in 1..Len(s) |-> s[idx[i]]]

\* Array.prototype.filter with the predicate given as the set of kept positions
RECURSIVE FilterIdx(_, _, _, _)
FilterIdx(s, keep, lo, hi) ==
    IF lo > hi THEN <<>>
    ELSE IF lo = hi THEN (IF lo \in keep THEN <<s[lo]>> ELSE <<>>)
    ELSE FilterIdx(s, keep, lo, (lo + hi) \div 2)
         \o FilterIdx(s, keep, (lo + hi) \div 2 + 1, hi)

ArrayFilter(s, keep) == FilterIdx(s, keep, 1, Len(s))

Min(a, b) == IF a < b THEN a ELSE b

----------------------------------------------------------------------------
(* SemanticSearch: similarity and search *)

NoVec == <<>>          \* null / undefined embedding, or a failed embed()
TopK == 50
DefaultMinScore == 25  \* 0.25

RECURSIVE Dot(_, _)
Dot(a, b) == IF a = <<>> THEN 0 ELSE Head(a) * Head(b) + Dot(Tail(a), Tail(b))

\* mutant: the lengths are not compared, the dot product runs over the
\* common prefix
cosineSimilarity_NoLengthCheck(vecA, vecB) ==
    IF vecA = NoVec \/ vecB = NoVec THEN 0
    ELSE Dot(SubSeq(vecA, 1, Min(Len(vecA), Len(vecB))),
             SubSeq(vecB, 1, Min(Len(vecA), Len(vecB))))

cosineSimilarity(vecA, vecB) ==
    IF vecA = NoVec \/ vecB = NoVec \/ Len(vecA) # Len(vecB) THEN 0
    ELSE Dot(vecA, vecB)

\* mutant: the threshold is an upper limit
SearchScored_AtMost(ps, queryVec, threshold) ==
    LET withEmb == ArrayFilter(ps, {i \in 1..Len(ps) : ps[i].embedding # NoVec})
        scoredAll == [i \in 1..Len(withEmb) |->
                        [id |-> withEmb[i].id,
                         score |-> cosineSimilarity(queryVec, withEmb[i].embedding)]]
    IN  ArrayFilter(scoredAll, {i \in 1..Len(scoredAll) : scoredAll[i].score <= threshold})

\* scored: prompts with an embedding, scored, then thresholded
SearchScored(ps, queryVec, threshold) ==
    LET withEmb == ArrayFilter(ps, {i \in 1..Len(ps) : ps[i].embedding # NoVec})
        scoredAll == [i \in 1..Len(withEmb) |->
                        [id |-> withEmb[i].id,
                         score |-> cosineSimilarity(queryVec, withEmb[i].embedding)]]
    IN  ArrayFilter(scoredAll, {i \in 1..Len(scoredAll) : scoredAll[i].score >= threshold})

\* SemanticSearch.search(query, prompts); queryVec is what embed(query) gave
SemanticSearch_search(ps, queryVec, loaded, threshold) ==
    IF ~loaded THEN <<>>
    ELSE IF queryVec = NoVec THEN <<>>
    ELSE LET scored == SearchScored(ps, queryVec, threshold)
             cmp == [i \in 1..Len(scored), j \in 1..Len(scored) |->
                        scored[j].score - scored[i].score]
             ranked == ArraySort(scored, cmp)
         IN  SubSeq(ranked, 1, Min(Len(ranked), TopK))

----------------------------------------------------------------------------
(* App.filterAndSortPrompts *)

\* mutant: the status filter is not applied
MatchesFilters_NoStatus(p, f) ==
    /\ (f.category # NoText => p.category = f.category)
    /\ (f.client # NoText => p.client = f.client)

\* matchesCat && matchesClient && matchesStatus
MatchesFilters(p, f) ==
    /\ (f.category # NoText => p.category = f.category)
    /\ (f.client # NoText => p.client = f.client)
    /\ (f.status # "" => p.status = f.status)

\* mutant: an empty query matches nothing
MatchesSearch_EmptyMatchesNone(p, f) ==
    LET searchSource == ToLowerCase(p.title \o p.description \o p.prompt_text \o p.tags)
    IN  f.search # NoText /\ Includes(searchSource, ToLowerCase(f.search))

\* matchesSearch of the keyword branch
MatchesSearch(p, f) ==
    LET searchSource == ToLowerCase(p.title \o p.description \o p.prompt_text \o p.tags)
    IN  Includes(searchSource, ToLowerCase(f.search))

\* new Map(semanticResults.map(r => [r.id, r.score])).get(id) || 0
ScoreOf(results, id) ==
    LET hits == {i \in 1..Len(results) : results[i].id = id}
    IN  IF hits = {} THEN 0
        ELSE results[CHOOSE i \in hits : \A j \in hits : j <= i].score

\* the comparator of the keyword branch
SortCompare(a, b, sortMode) ==
    CASE sortMode = "date-asc" -> a.date_created - b.date_created
      [] sortMode = "date-desc" -> b.date_created - a.date_created
      [] sortMode = "name-asc" -> LocaleCompare(a.title, b.title)
      [] sortMode = "cat-asc" -> LocaleCompare(a.category, b.category)
      [] sortMode = "client-asc" -> LocaleCompare(a.client, b.client)
      [] OTHER -> 0

\* mutant: the branch is taken without looking at the query
UseSemantic_NoQueryCheck(f, loaded, semMode) == loaded /\ semMode

\* mutant: the branch is taken without looking at isLoaded
UseSemantic_NoLoadCheck(f, loaded, semMode) == f.search # NoText /\ semMode

\* the branch condition: filter.search && this.semantic.isLoaded && semanticMode
UseSemantic(f, loaded, semMode) == f.search # NoText /\ loaded /\ semMode

\* mutant: prompts absent from the semantic results are dropped
SemanticBranch_Excluding(ps, f, queryVec, loaded, threshold) ==
    LET semanticResults == SemanticSearch_search(ps, queryVec, loaded, threshold)
        kept == ArrayFilter(ps, {i \in 1..Len(ps) :
                    /\ MatchesFilters(ps[i], f)
                    /\ \E k \in 1..Len(semanticResults) : semanticResults[k].id = ps[i].id})
        cmp == [i \in 1..Len(kept), j \in 1..Len(kept) |->
                   ScoreOf(semanticResults, kept[j].id) - ScoreOf(semanticResults, kept[i].id)]
    IN  ArraySort(kept, cmp)

\* mutant: the filtered list is returned without the re-ranking sort
SemanticBranch_NoSort(ps, f, queryVec, loaded, threshold) ==
    ArrayFilter(ps, {i \in 1..Len(ps) : MatchesFilters(ps[i], f)})

SemanticBranch(ps, f, queryVec, loaded, threshold) ==
    LET kept == ArrayFilter(ps, {i \in 1..Len(ps) : MatchesFilters(ps[i], f)})
        Ranked(semanticResults) ==
            ArraySort(kept, [i \in 1..Len(kept), j \in 1..Len(kept) |->
                ScoreOf(semanticResults, kept[j].id) - ScoreOf(semanticResults, kept[i].id)])
    \* the results of the search are there before the list is filtered and sorted
    IN  CHOOSE sorted \in {Ranked(r) : r \in {SemanticSearch_search(ps, queryVec, loaded,
                                                                    threshold)}} : TRUE

KeywordBranch(ps, f) ==
    LET kept == ArrayFilter(ps, {i \in 1..Len(ps) :
                    MatchesSearch(ps[i], f) /\ MatchesFilters(ps[i], f)})
        cmp == [i \in 1..Len(kept), j \in 1..Len(kept) |->
                   SortCompare(kept[i], kept[j], f.sort)]
    IN  ArraySort(kept, cmp)

filterAndSortPrompts(ps, f, semMode, queryVec, loaded, threshold) ==
    IF UseSemantic(f, loaded, semMode)
    THEN SemanticBranch(ps, f, queryVec, loaded, threshold)
    ELSE KeywordBranch(ps, f)

----------------------------------------------------------------------------
(* The prompt sets and inputs the search is run on *)

V10 == <<10, 0>>       \* [1, 0]
V01 == <<0, 10>>       \* [0, 1]
V91 == <<9, 1>>        \* [0.9, 0.1]
V100 == <<10, 0, 0>>   \* a vector of another length

MkPrompt(title, description, text, notes, category, client, status, date, embedding) ==
    [title |-> title, description |-> description, prompt_text |-> text,
     tags |-> NoText, notes |-> notes, category |-> category, client |-> client,
     status |-> status, date_created |-> date, embedding |-> embedding]

PromptPool ==
    { MkPrompt(<<"a">>, <<"B">>, NoText, NoText, <<"X">>, <<"A">>, "live", 1, V10),
      MkPrompt(<<"b">>, NoText, NoText, <<"a", "b">>, <<"Y">>, <<"A">>, "live", 2, V01),
      MkPrompt(<<"A", "b">>, NoText, <<"b">>, NoText, <<"X">>, NoText, "draft", 2, V91),
      MkPrompt(<<"b">>, NoText, <<"a">>, NoText, <<"X">>, <<"A">>, "draft", 0, NoVec),
      MkPrompt(NoText, NoText, <<"B">>, NoText, NoText, NoText, "live", 1, V100) }

WithId(p, id) ==
    [id |-> id, title |-> p.title, description |-> p.description,
     prompt_text |-> p.prompt_text, tags |-> p.tags, notes |-> p.notes,
     category |-> p.category, client |-> p.client, status |-> p.status,
     date_created |-> p.date_created, embedding |-> p.embedding]

\* every stored list of at most MaxPrompts prompts, ids distinct
PromptLists ==
    UNION { { [i \in 1..n |-> WithId(c[i], i)] : c \in [1..n -> PromptPool] }
            : n \in 0..MaxPrompts }

Queries == {NoText, <<"A", "b">>}
Categories == {NoText, <<"X">>, <<"Y">>}
Clients == {NoText, <<"A">>}
Statuses == {"", "live"}
SortKeys == {"date-desc", "date-asc", "name-asc", "cat-asc", "client-asc"}
Thresholds == {0, DefaultMinScore}
QueryVecs == {V10}

DefaultFilter ==
    [search |-> NoText, category |-> NoText, client |-> NoText, status |-> "",
     sort |-> "date-desc"]

----------------------------------------------------------------------------
(* Constructors *)

NoFile == <<>>
NoCall == [op |-> "none"]
EmptyDir == [n \in {} |-> NoFile]

MaxCallers == 3
Callers == 1..MaxCallers
VaultIds == {<<"p", "1">>, <<"p", "2">>}

\* new SemanticSearch()
SemanticSearch_constructor ==
    /\ isLoaded = FALSE /\ isLoading = FALSE /\ loadError = FALSE /\ pipe = FALSE
    /\ minScore = DefaultMinScore

\* a direct call and its outcome; NoUnitCall: none made yet
UnitCall(op, vecA, vecB, ps, threshold, score, results) ==
    [op |-> op, vecA |-> vecA, vecB |-> vecB, prompts |-> ps, minScore |-> threshold,
     score |-> score, results |-> results]
NoUnitCall == UnitCall("none", NoVec, NoVec, <<>>, 0, 0, <<>>)

\* IndexedDBRepo.js: DB_VERSION and the stores of onupgradeneeded
DB_VERSION == 2
V1Stores == {"prompts", "templates"}
V2Stores == {"collections"}

\* the state of the database, of the open request and of init()'s promise
Idb(version, stores, others, request, blocked, promise, value, db, alerts) ==
    [version |-> version, stores |-> stores, others |-> others, request |-> request,
     blocked |-> blocked, promise |-> promise, value |-> value, db |-> db,
     alerts |-> alerts]

\* new IndexedDBRepo(): this.db = null, nothing opened
NoOpen == Idb(DB_VERSION, V1Stores \cup V2Stores, 0, "none", FALSE, "none", "", FALSE, <<>>)

\* a transaction of IndexedDBRepo: the call that opened it, the stores it
\* spans, the content it started from and the content it will commit, how it
\* ended, and the promise the call returned
Tx(op, names, before, work, state, promise, count) ==
    [op |-> op, names |-> names, before |-> before, work |-> work, state |-> state,
     promise |-> promise, count |-> count]

\* no write has been made; every store holds one record
NoWrites ==
    /\ objectStores = [n \in V1Stores \cup V2Stores |-> {"k1"}]
    /\ tx = Tx("none", {}, objectStores, objectStores, "none", "none", 0)

NoCollection == <<>>

\* new App(): state.collections, state.activeCollectionId; nothing stored
NoCollections ==
    /\ collections = <<>>
    /\ activeCollectionId = NoCollection
    /\ filterSharedWith = NoCollection
    /\ collectionStore = {}

\* no loadAll() is in progress and no handler of App is between two awaits
NoScan == [pc |-> "idle"]
NoView ==
    [editor |-> FALSE, modal |-> FALSE, loading |-> FALSE, pendingNavigation |-> <<>>,
     pendingNew |-> FALSE]
NoHandler ==
    [op |-> "none", step |-> "none", id |-> <<>>, doc |-> <<>>, embedded |-> FALSE,
     vec |-> <<>>, mode |-> "", backend |-> "", removed |-> {}, clicks |-> 0]
NoFlows ==
    /\ scan = NoScan
    /\ calls = <<>>
    /\ heap = <<>>
    /\ view = NoView
    /\ handled = NoHandler

\* no init() call has been made
NoInitCalls ==
    /\ initPc = [c \in Callers |-> "idle"]
    /\ initResult = [c \in Callers |-> "none"]
    /\ pipelineCalls = 0
    /\ loadsStarted = 0
    /\ lastInit = NoCall

\* new VaultRepo(), and a directory nothing has been written to
VaultRepo_constructor ==
    /\ dirHandle = FALSE /\ isConnected = FALSE
    /\ fileMap = [i \in VaultIds |-> NoFile]
    /\ vaultOut = [op |-> "new", id |-> NoText, status |-> "returned", hadEntry |-> FALSE,
                   before |-> {}, removed |-> {}, scanned |-> FALSE, prompts |-> {},
                   templates |-> {}]

\* the editor's inputs before a prompt is loaded into them
NoInputs ==
    [title |-> NoText, desc |-> NoText, cat |-> NoText, client |-> NoText, status |-> "draft",
     text |-> NoText, tags |-> NoText, notes |-> NoText]

\* new App(): state.prompts, state.filter, state.semanticMode
App_constructor ==
    /\ prompts = <<>>
    /\ filter = DefaultFilter
    /\ semanticMode = TRUE
    /\ searchTimeout = FALSE
    /\ rendered = [filter |-> DefaultFilter, semanticMode |-> TRUE,
                   minScore |-> DefaultMinScore, queryVec |-> NoVec,
                   embedCalls |-> 0]
    /\ filtered = <<>>
    /\ storageMode = "local"
    /\ store = [i \in {} |-> <<>>]
    /\ currentPrompt = <<>>
    /\ editorShared = FALSE
    /\ inputs = NoInputs
    /\ isDirty = FALSE
    /\ idsUsed = 0
    /\ reindexQueue = <<>>

----------------------------------------------------------------------------
(* The search specification: App's filter handlers, each with the          *)
(* renderSidebar -> filterAndSortPrompts call it ends in.                  *)

\* renderSidebar: one call of filterAndSortPrompts on the state as given.
\* embed(query) is only called in the semantic branch (by semantic.search,
\* once per call); it yields a vector or null.  embedCalls counts the
\* embed calls the render made.
RenderSidebar(f, semMode, threshold) ==
    \E qv \in (IF UseSemantic(f, isLoaded, semMode) THEN QueryVecs \cup {NoVec} ELSE {NoVec}) :
        /\ rendered' = [filter |-> f, semanticMode |-> semMode, minScore |-> threshold,
                        queryVec |-> qv,
                        embedCalls |-> IF UseSemantic(f, isLoaded, semMode) THEN 1 ELSE 0]
        /\ filtered' = filterAndSortPrompts(prompts, f, semMode, qv, isLoaded, threshold)

\* state.filter[field] = value; state.activeCollectionId = null.  The
\* assignment is to the object state.filter holds: a collection whose filters
\* is that same object has the field assigned too
FilterAssigned(f) ==
    /\ filter' = f
    /\ activeCollectionId' = NoCollection
    /\ collections' = [i \in 1..Len(collections) |->
                          IF collections[i].id = filterSharedWith
                          THEN [collections[i] EXCEPT !.filters = f]
                          ELSE collections[i]]
    /\ UNCHANGED <<filterSharedWith, collectionStore, flowVars>>

\* search.oninput: sets the query and (re)arms the 300 ms debounce timer
SearchInput ==
    \E q \in Queries :
        /\ FilterAssigned([filter EXCEPT !.search = q])
        /\ searchTimeout' = TRUE
        /\ UNCHANGED <<prompts, semanticMode, rendered, filtered, semVars, initVars, vaultVars, appVars, unitVars, idbVars>>

\* the debounce timer fires: renderSidebar
SearchTimerFires ==
    /\ searchTimeout
    /\ searchTimeout' = FALSE
    /\ RenderSidebar(filter, semanticMode, minScore)
    /\ UNCHANGED <<prompts, filter, semanticMode, semVars, initVars, vaultVars, appVars, unitVars, idbVars, collVars, flowVars>>

\* onFilterChange(field, value)
FilterChange ==
    \E f \in { [filter EXCEPT !.category = c] : c \in Categories }
         \cup { [filter EXCEPT !.client = c] : c \in Clients }
         \cup { [filter EXCEPT !.status = c] : c \in Statuses }
         \cup { [filter EXCEPT !.sort = c] : c \in SortKeys } :
        /\ FilterAssigned(f)
        /\ RenderSidebar(f, semanticMode, minScore)
        /\ UNCHANGED <<prompts, semanticMode, searchTimeout, semVars, initVars, vaultVars, appVars, unitVars, idbVars>>

\* slider.oninput: setThreshold(val); renderSidebar
SliderInput ==
    \E t \in Thresholds :
        /\ minScore' = t
        /\ RenderSidebar(filter, semanticMode, t)
        /\ UNCHANGED <<prompts, filter, semanticMode, searchTimeout, isLoaded, isLoading,
                       loadError, pipe, initVars, vaultVars, appVars, unitVars, idbVars, collVars, flowVars>>

\* toggleSemantic.onchange
ToggleSemantic ==
    \E b \in BOOLEAN :
        /\ semanticMode' = b
        /\ RenderSidebar(filter, b, minScore)
        /\ UNCHANGED <<prompts, filter, searchTimeout, semVars, initVars, vaultVars, appVars, unitVars, idbVars, collVars, flowVars>>

\* the model's load state while searching: loaded, still loading, load failed
SemStates ==
    { [isLoaded |-> TRUE, isLoading |-> FALSE, loadError |-> FALSE, pipe |-> TRUE],
      [isLoaded |-> FALSE, isLoading |-> TRUE, loadError |-> FALSE, pipe |-> FALSE],
      [isLoaded |-> FALSE, isLoading |-> FALSE, loadError |-> TRUE, pipe |-> FALSE] }

\* the sidebar as first rendered, on one of the given stored lists
SearchInitOn(lists) ==
    /\ prompts \in lists
    /\ filter = DefaultFilter
    /\ semanticMode = TRUE
    /\ searchTimeout = FALSE
    /\ \E s \in SemStates :
        /\ isLoaded = s.isLoaded /\ isLoading = s.isLoading
        /\ loadError = s.loadError /\ pipe = s.pipe
    /\ minScore = DefaultMinScore
    /\ rendered = [filter |-> DefaultFilter, semanticMode |-> TRUE,
                   minScore |-> DefaultMinScore, queryVec |-> NoVec,
                   embedCalls |-> 0]
    /\ filtered = filterAndSortPrompts(prompts, DefaultFilter, TRUE, NoVec, isLoaded,
                                       DefaultMinScore)
    /\ NoInitCalls
    /\ unitCall = NoUnitCall
    /\ idb = NoOpen
    /\ NoWrites
    /\ NoCollections
    /\ NoFlows
    /\ VaultRepo_constructor /\ dir = EmptyDir
    /\ storageMode = "local"
    /\ store = [i \in {prompts[k].id : k \in 1..Len(prompts)} |->
                    prompts[CHOOSE k \in 1..Len(prompts) : prompts[k].id = i]]
    /\ currentPrompt = <<>> /\ editorShared = FALSE /\ inputs = NoInputs
    /\ isDirty = FALSE /\ idsUsed = 0 /\ reindexQueue = <<>>

SearchInit == SearchInitOn(PromptLists)

SearchNext ==
    \/ SearchInput
    \/ SearchTimerFires
    \/ FilterChange
    \/ SliderInput
    \/ ToggleSemantic

SearchSpec == SearchInit /\ [][SearchNext]_vars

----------------------------------------------------------------------------
(* The library specification: the same handlers on a stored list longer    *)
(* than search's topK.  A crowd of prompts of category Y that all score 1  *)
(* for the query is followed by two prompts of category X that score 0.3   *)
(* and 0.9.                                                                *)

V39 == <<3, 9>>        \* [0.3, 0.9]

Library(crowd) ==
    [i \in 1..(crowd + 2) |->
        WithId(IF i <= crowd
               THEN MkPrompt(<<"b">>, NoText, NoText, NoText, <<"Y">>, <<"A">>, "live", 1, V10)
               ELSE IF i = crowd + 1
               THEN MkPrompt(<<"a">>, <<"B">>, NoText, NoText, <<"X">>, <<"A">>, "live", 2, V39)
               ELSE MkPrompt(<<"A", "b">>, NoText, NoText, NoText, <<"X">>, NoText, "draft", 3,
                             V91),
               i)]

\* the stored lists of this specification
Libraries == {Library(TopK)}

LibraryInit == SearchInitOn(Libraries)

LibrarySpec == LibraryInit /\ [][SearchNext]_vars

----------------------------------------------------------------------------
(* SemanticSearch.init called by several callers; pipeline() settles later *)

MaxLoads == 3

\* mutant: no isLoading check, every call before the model is loaded loads it
InitCall_NoLoadingGuard(c) ==
    /\ initPc[c] = "idle"
    /\ IF isLoaded
       THEN /\ initResult' = [initResult EXCEPT ![c] = "true"]
            /\ lastInit' = [op |-> "init", caller |-> c, sawLoaded |-> isLoaded,
                            sawLoading |-> isLoading, started |-> FALSE, returned |-> "true"]
            /\ UNCHANGED <<initPc, pipelineCalls, loadsStarted, isLoading, loadError>>
       ELSE /\ loadsStarted < MaxLoads
            /\ isLoading' = TRUE
            /\ loadError' = FALSE
            /\ initPc' = [initPc EXCEPT ![c] = "awaiting"]
            /\ initResult' = [initResult EXCEPT ![c] = "none"]
            /\ pipelineCalls' = pipelineCalls + 1
            /\ loadsStarted' = loadsStarted + 1
            /\ lastInit' = [op |-> "init", caller |-> c, sawLoaded |-> isLoaded,
                            sawLoading |-> isLoading, started |-> TRUE, returned |-> "none"]
    /\ UNCHANGED <<isLoaded, pipe, minScore, searchVars, vaultVars, appVars, unitVars, idbVars, collVars, flowVars>>

\* init() up to its await: returns at once, or sets isLoading and calls pipeline()
InitCall(c) ==
    /\ initPc[c] = "idle"
    /\ IF isLoaded
       THEN /\ initResult' = [initResult EXCEPT ![c] = "true"]
            /\ lastInit' = [op |-> "init", caller |-> c, sawLoaded |-> isLoaded,
                            sawLoading |-> isLoading, started |-> FALSE, returned |-> "true"]
            /\ UNCHANGED <<initPc, pipelineCalls, loadsStarted, isLoading, loadError>>
       ELSE IF isLoading
       THEN /\ initResult' = [initResult EXCEPT ![c] = "false"]
            /\ lastInit' = [op |-> "init", caller |-> c, sawLoaded |-> isLoaded,
                            sawLoading |-> isLoading, started |-> FALSE, returned |-> "false"]
            /\ UNCHANGED <<initPc, pipelineCalls, loadsStarted, isLoading, loadError>>
       ELSE /\ loadsStarted < MaxLoads
            /\ isLoading' = TRUE
            /\ loadError' = FALSE
            /\ initPc' = [initPc EXCEPT ![c] = "awaiting"]
            /\ initResult' = [initResult EXCEPT ![c] = "none"]
            /\ pipelineCalls' = pipelineCalls + 1
            /\ loadsStarted' = loadsStarted + 1
            /\ lastInit' = [op |-> "init", caller |-> c, sawLoaded |-> isLoaded,
                            sawLoading |-> isLoading, started |-> TRUE, returned |-> "none"]
    /\ UNCHANGED <<isLoaded, pipe, minScore, searchVars, vaultVars, appVars, unitVars, idbVars, collVars, flowVars>>

\* pipeline() resolves: the try block's tail, then finally
PipelineResolves(c) ==
    /\ initPc[c] = "awaiting"
    /\ pipe' = TRUE
    /\ isLoaded' = TRUE
    /\ isLoading' = FALSE
    /\ initPc' = [initPc EXCEPT ![c] = "idle"]
    /\ initResult' = [initResult EXCEPT ![c] = "true"]
    /\ pipelineCalls' = pipelineCalls - 1
    /\ UNCHANGED <<loadError, minScore, loadsStarted, lastInit, searchVars, vaultVars, appVars, unitVars, idbVars, collVars, flowVars>>

\* pipeline() rejects: the catch block, then finally
PipelineRejects(c) ==
    /\ initPc[c] = "awaiting"
    /\ loadError' = TRUE
    /\ isLoading' = FALSE
    /\ initPc' = [initPc EXCEPT ![c] = "idle"]
    /\ initResult' = [initResult EXCEPT ![c] = "false"]
    /\ pipelineCalls' = pipelineCalls - 1
    /\ UNCHANGED <<isLoaded, pipe, minScore, loadsStarted, lastInit, searchVars, vaultVars, appVars, unitVars, idbVars, collVars, flowVars>>

LoadInit ==
    /\ SemanticSearch_constructor
    /\ NoInitCalls
    /\ unitCall = NoUnitCall
    /\ idb = NoOpen
    /\ NoWrites
    /\ NoCollections
    /\ NoFlows
    /\ App_constructor
    /\ VaultRepo_constructor /\ dir = EmptyDir

LoadNext ==
    \/ \E c \in Callers : InitCall(c)
    \/ \E c \in Callers : PipelineResolves(c)
    \/ \E c \in Callers : PipelineRejects(c)

LoadSpec == LoadInit /\ [][LoadNext]_vars

----------------------------------------------------------------------------
(* VaultRepo: one JSON file per document in the selected directory.        *)
(* A file's content is <<doc>> when it parses to doc, <<>> when it does not. *)

MaxBrokenFiles == 1

VaultTitles == {<<"D">>, <<"F", "-">>}
VaultDescriptions == {<<"D">>}
VaultPrompts == {[id |-> i, title |-> t, prompt_text |-> <<"x">>] :
                    i \in VaultIds, t \in VaultTitles}
VaultTemplates == {[id |-> i, description |-> d, template_text |-> <<"y">>] :
                    i \in VaultIds, d \in VaultDescriptions}

IsAlnum(c) ==
    c \in {"a", "b", "x", "y", "A", "B", "D", "F", "X", "Y", "p", "1", "2",
           "N", "e", "w", "P", "r", "o", "m", "t"}

\* text.replace(/[^a-z0-9]/gi, '_')
Sanitize(text) == [i \in 1..Len(text) |-> IF IsAlnum(text[i]) THEN text[i] ELSE "_"]

\* `${safeTitle}__${prompt.id}.json`
PromptFileName(prompt) ==
    LET safeTitle == Sanitize(IF prompt.title = NoText THEN <<"Untitled">> ELSE prompt.title)
    IN  safeTitle \o <<"_", "_">> \o prompt.id \o <<".json">>

\* `TEMPLATE_${safeDesc}__${template.id}.json`
TemplateFileName(template) ==
    LET safeDesc == Sanitize(IF template.description = NoText THEN <<"Template">>
                             ELSE template.description)
    IN  <<"TEMPLATE_">> \o safeDesc \o <<"_", "_">> \o template.id \o <<".json">>

\* dirHandle.removeEntry(name) on a directory d that holds name
RemoveEntry(d, name) == [n \in (DOMAIN d) \ {name} |-> d[n]]

\* the directory after a file is created or replaced
PutEntry(d, name, content) ==
    [n \in (DOMAIN d) \cup {name} |-> IF n = name THEN content ELSE d[n]]

\* the files of d that parse and whose json.id is id
FilesWithId(d, id) == {n \in DOMAIN d : d[n] # <<>> /\ d[n][1].id = id}

\* the documents a scan of d parses
ParsedDocs(d) == {d[n][1] : n \in {m \in DOMAIN d : d[m] # <<>>}}

\* a call and its outcome: hadEntry, before: the index entry and the files
\* of the id when the call was made; removed: the files the call removed
VaultOut(op, id, status, hadEntry, before, removed, scanned, ps, ts) ==
    [op |-> op, id |-> id, status |-> status, hadEntry |-> hadEntry, before |-> before,
     removed |-> removed, scanned |-> scanned, prompts |-> ps, templates |-> ts]

\* the files a failed write left empty
brokenFiles == Cardinality({n \in DOMAIN dir : dir[n] = <<>>})

\* new VaultRepo() in a later session: the directory keeps its files
NewVaultRepo ==
    /\ dirHandle' = FALSE /\ isConnected' = FALSE
    /\ fileMap' = [i \in VaultIds |-> NoFile]
    /\ vaultOut' = VaultOut("new", NoText, "returned", FALSE, {}, {}, FALSE, {}, {})
    /\ UNCHANGED <<dir, searchVars, semVars, initVars, appVars, unitVars, idbVars, collVars, flowVars>>

\* selectDirectory(): the picker resolves, or the user cancels it
selectDirectory ==
    \E picked \in BOOLEAN :
        /\ dirHandle' = (dirHandle \/ picked)
        /\ isConnected' = (isConnected \/ picked)
        /\ vaultOut' = VaultOut("selectDirectory", NoText, "returned", FALSE, {}, {}, FALSE,
                                {}, {})
        /\ UNCHANGED <<fileMap, dir, searchVars, semVars, initVars, appVars, unitVars, idbVars, collVars, flowVars>>

\* the indexes loadAll can build from d: fileMap.set(json.id, entry.name) for
\* every file that parses, in the order the reads complete
IndexAfterScan(d) ==
    {fm \in [VaultIds -> (DOMAIN d) \cup {NoFile}] :
        \A i \in VaultIds : IF FilesWithId(d, i) = {} THEN fm[i] = NoFile
                             ELSE fm[i] \in FilesWithId(d, i)}

\* loadAll(), also behind getAllPrompts() and getAllTemplates(): the index is
\* rebuilt from the scan; when several files hold one id, the file read last wins
LoadAll(op) ==
    /\ IF ~dirHandle
       THEN /\ vaultOut' = VaultOut(op, NoText, "returned", FALSE, {}, {}, FALSE, {}, {})
            /\ UNCHANGED fileMap
       ELSE /\ \E fm \in IndexAfterScan(dir) : fileMap' = fm
            /\ vaultOut' = VaultOut(op, NoText, "returned", FALSE, {}, {}, TRUE,
                    {j \in ParsedDocs(dir) : "prompt_text" \in DOMAIN j},
                    {j \in ParsedDocs(dir) : "prompt_text" \notin DOMAIN j
                                             /\ "template_text" \in DOMAIN j})
    /\ UNCHANGED <<dirHandle, isConnected, dir, searchVars, semVars, initVars, appVars, unitVars, idbVars, collVars, flowVars>>

loadAll == LoadAll("loadAll")
getAllPrompts == LoadAll("getAllPrompts")
getAllTemplates == LoadAll("getAllTemplates")

\* the body shared by savePrompt and saveTemplate: the rename check, then
\* writeFile, then the index update.  writeFile may fail before the file is
\* created ("failed") or after it was created empty ("created").
SaveFile(op, doc, newFileName) ==
    IF ~dirHandle
    THEN /\ vaultOut' = VaultOut(op, doc.id, "threw", fileMap[doc.id] # NoFile,
                                 FilesWithId(dir, doc.id), {}, FALSE, {}, {})
         /\ UNCHANGED <<dirHandle, isConnected, fileMap, dir>>
    ELSE LET oldFileName == fileMap[doc.id]
             afterRename ==
                 IF oldFileName # NoFile /\ oldFileName # newFileName
                    /\ oldFileName \in DOMAIN dir
                 THEN RemoveEntry(dir, oldFileName)
                 ELSE dir
         IN  \E w \in {"ok", "failed", "created"} :
                /\ w # "ok" => brokenFiles < MaxBrokenFiles
                /\ dir' = CASE w = "ok" -> PutEntry(afterRename, newFileName, <<doc>>)
                            [] w = "failed" -> afterRename
                            [] w = "created" ->
                                IF newFileName \in DOMAIN afterRename THEN afterRename
                                ELSE PutEntry(afterRename, newFileName, <<>>)
                /\ fileMap' = IF w = "ok" THEN [fileMap EXCEPT ![doc.id] = newFileName]
                              ELSE fileMap
                /\ vaultOut' = VaultOut(op, doc.id, IF w = "ok" THEN "returned" ELSE "threw",
                                        fileMap[doc.id] # NoFile, FilesWithId(dir, doc.id),
                                        (DOMAIN dir) \ (DOMAIN afterRename), FALSE, {}, {})
                /\ UNCHANGED <<dirHandle, isConnected>>

savePrompt ==
    \E prompt \in VaultPrompts :
        /\ SaveFile("savePrompt", prompt, PromptFileName(prompt))
        /\ UNCHANGED <<searchVars, semVars, initVars, appVars, unitVars, idbVars, collVars, flowVars>>

saveTemplate ==
    \E template \in VaultTemplates :
        /\ SaveFile("saveTemplate", template, TemplateFileName(template))
        /\ UNCHANGED <<searchVars, semVars, initVars, appVars, unitVars, idbVars, collVars, flowVars>>

\* deleteFile(id): the cached file name first, else the first file of the
\* directory whose json.id is id
DeleteFile(op, id) ==
    LET cachedFileName == fileMap[id]
        out(removed, scanned) ==
            VaultOut(op, id, "returned", cachedFileName # NoFile, FilesWithId(dir, id),
                     removed, scanned, {}, {})
    IN  IF ~dirHandle
        THEN /\ vaultOut' = out({}, FALSE)
             /\ UNCHANGED <<dirHandle, isConnected, fileMap, dir>>
        ELSE IF cachedFileName # NoFile /\ cachedFileName \in DOMAIN dir
        THEN /\ dir' = RemoveEntry(dir, cachedFileName)
             /\ fileMap' = [fileMap EXCEPT ![id] = NoFile]
             /\ vaultOut' = out({cachedFileName}, FALSE)
             /\ UNCHANGED <<dirHandle, isConnected>>
        ELSE IF FilesWithId(dir, id) = {}
        THEN /\ vaultOut' = out({}, TRUE)
             /\ UNCHANGED <<dirHandle, isConnected, fileMap, dir>>
        ELSE /\ \E name \in FilesWithId(dir, id) :
                /\ dir' = RemoveEntry(dir, name)
                /\ vaultOut' = out({name}, TRUE)
             /\ fileMap' = [fileMap EXCEPT ![id] = NoFile]
             /\ UNCHANGED <<dirHandle, isConnected>>

deletePrompt ==
    \E id \in VaultIds :
        DeleteFile("deletePrompt", id) /\ UNCHANGED <<searchVars, semVars, initVars, appVars, unitVars, idbVars, collVars, flowVars>>

deleteTemplate ==
    \E id \in VaultIds :
        DeleteFile("deleteTemplate", id) /\ UNCHANGED <<searchVars, semVars, initVars, appVars, unitVars, idbVars, collVars, flowVars>>

VaultInit ==
    /\ VaultRepo_constructor
    /\ dir = EmptyDir
    /\ App_constructor
    /\ SemanticSearch_constructor
    /\ NoInitCalls
    /\ unitCall = NoUnitCall
    /\ idb = NoOpen
    /\ NoWrites
    /\ NoCollections
    /\ NoFlows

VaultNext ==
    \/ NewVaultRepo
    \/ selectDirectory
    \/ loadAll
    \/ getAllPrompts
    \/ getAllTemplates
    \/ savePrompt
    \/ saveTemplate
    \/ deletePrompt
    \/ deleteTemplate

VaultSpec == VaultInit /\ [][VaultNext]_vars

----------------------------------------------------------------------------
(* The editing specification: App's editor, persistPrompt, background      *)
(* re-indexing and a page reload, in the local storage mode (the default;  *)
(* the vault's own behaviour is the subject of VaultSpec).  The search box *)
(* stays empty, so every renderSidebar takes the keyword branch.           *)

MaxIds == 1
MaxVersions == 2
MaxQueue == 2
MaxCollections == 1

NewPromptTitle == <<"N", "e", "w", " ", "P", "r", "o", "m", "p", "t">>
EditTitles == {NoText, <<"a">>}
EditTexts == {NoText, <<"b">>}

\* Utils.generateId: a fresh id on every call
generateId(n) == <<"p", IF n = 0 THEN "1" ELSE IF n = 1 THEN "2" ELSE "3">>

\* PromptService.createPrompt(generateId); date_created counts creations
createPrompt(n) ==
    [id |-> generateId(n), title |-> NewPromptTitle, description |-> NoText,
     prompt_text |-> NoText, tags |-> NoText, status |-> "draft", notes |-> NoText,
     category |-> NoText, client |-> NoText, date_created |-> n + 1, versions |-> <<>>,
     embedding |-> NoVec]

\* String.prototype.trim over the blanks of the template literal
RECURSIVE TrimStart(_)
TrimStart(s) == IF s # <<>> /\ Head(s) = " " THEN TrimStart(Tail(s)) ELSE s
RECURSIVE TrimEnd(_)
TrimEnd(s) ==
    IF s # <<>> /\ s[Len(s)] = " " THEN TrimEnd(SubSeq(s, 1, Len(s) - 1)) ELSE s
Trim(s) == TrimEnd(TrimStart(s))

\* persistPrompt's textToEmbed
TextToEmbed(p) ==
    Trim(p.title \o <<" ">> \o p.description \o <<" ">> \o p.notes \o <<" ">> \o p.prompt_text)

\* the vector the loaded pipeline computes for a text: one count per letter of
\* the editing alphabet, so that the texts of this specification tell apart
CountOf(c, s) == Cardinality({i \in 1..Len(s) : s[i] = c})
PipeOutput(text) == <<CountOf("a", text), CountOf("b", text), CountOf("N", text)>>

\* persistPrompt up to the backend write: prompt.embedding = await embed(text),
\* only when the model is loaded and the text is not empty; embed yields null
\* when the pipeline throws
WithEmbedding(p, loaded, embedOk) ==
    IF loaded /\ TextToEmbed(p) # NoText
    THEN [p EXCEPT !.embedding = IF embedOk THEN PipeOutput(TextToEmbed(p)) ELSE NoVec]
    ELSE p

\* persistPrompt's backend write
BackendWrite(p) ==
    IF storageMode = "vault"
    THEN SaveFile("savePrompt", p, PromptFileName(p)) /\ UNCHANGED store
    ELSE /\ store' = [i \in (DOMAIN store) \cup {p.id} |-> IF i = p.id THEN p ELSE store[i]]
         /\ vaultOut' = VaultOut("put", p.id, "returned", FALSE, {}, {}, FALSE, {}, {})
         /\ UNCHANGED <<dirHandle, isConnected, fileMap, dir>>

\* the index of the prompt of ps whose id is id, 0 when there is none
FindIndex(ps, id) ==
    IF \E i \in 1..Len(ps) : ps[i].id = id
    THEN CHOOSE i \in 1..Len(ps) : ps[i].id = id /\ \A j \in 1..(i - 1) : ps[j].id # id
    ELSE 0

\* store.getAll('prompts'): the records in key order
RECURSIVE StoreGetAll(_, _)
StoreGetAll(st, n) ==
    IF n = 0 THEN <<>>
    ELSE StoreGetAll(st, n - 1)
         \o (IF generateId(n - 1) \in DOMAIN st THEN <<st[generateId(n - 1)]>> ELSE <<>>)

\* Utils.generateId for a collection: a fresh id on every call
CollectionId(n) == <<"c", IF n = 0 THEN "1" ELSE "2">>

\* store.getAll('collections'): the records in key order
RECURSIVE CollectionsGetAll(_, _)
CollectionsGetAll(cs, n) ==
    IF n = 0 THEN <<>>
    ELSE CollectionsGetAll(cs, n - 1)
         \o (IF \E c \in cs : c.id = CollectionId(n - 1)
             THEN <<CHOOSE c \in cs : c.id = CollectionId(n - 1)>> ELSE <<>>)

\* loadEditor's form fill
InputsOf(p) ==
    [title |-> p.title, desc |-> p.description, cat |-> p.category, client |-> p.client,
     status |-> IF p.status = "" THEN "draft" ELSE p.status, text |-> p.prompt_text,
     tags |-> p.tags, notes |-> p.notes]

\* renderSidebar with the search box empty
Render(ps, loaded) ==
    /\ rendered' = [filter |-> filter, semanticMode |-> semanticMode, minScore |-> minScore,
                    queryVec |-> NoVec,
                   embedCalls |-> 0]
    /\ filtered' = filterAndSortPrompts(ps, filter, semanticMode, NoVec, loaded, minScore)

\* the prompts reindexStalePrompts queues: those without an embedding, once
\* the model is loaded
StalePrompts(ps, loaded) ==
    IF loaded THEN ArrayFilter(ps, {i \in 1..Len(ps) : ps[i].embedding = NoVec}) ELSE <<>>

\* reindexStalePrompts(): its loop joins the persists still to be made; the
\* loop holds the objects of state.prompts themselves
reindexStalePrompts(ps, loaded) ==
    /\ Len(reindexQueue) + Len(StalePrompts(ps, loaded)) <= MaxQueue
    /\ reindexQueue' = reindexQueue
            \o [i \in 1..Len(StalePrompts(ps, loaded)) |->
                    [obj |-> StalePrompts(ps, loaded)[i], live |-> TRUE]]

\* the write of the step just taken went through
Written == vaultOut'.status = "returned"

\* loadEditor(id) for a prompt of ps: a deep clone goes to the editor
LoadEditor(ps, id) ==
    /\ currentPrompt' = <<ps[FindIndex(ps, id)]>>
    /\ editorShared' = FALSE
    /\ inputs' = InputsOf(ps[FindIndex(ps, id)])
    /\ isDirty' = FALSE

\* semantic.init() resolves true; its then-callback runs reindexStalePrompts
ModelLoads ==
    /\ isLoading
    /\ isLoaded' = TRUE /\ pipe' = TRUE /\ isLoading' = FALSE
    /\ reindexStalePrompts(prompts, TRUE)
    /\ UNCHANGED <<loadError, minScore, searchVars, initVars, vaultVars, storageMode, store,
                   currentPrompt, editorShared, inputs, isDirty, idsUsed, unitVars, idbVars, collVars, flowVars>>

\* semantic.init() resolves false: the pipeline threw
ModelFails ==
    /\ isLoading
    /\ loadError' = TRUE /\ isLoading' = FALSE
    /\ UNCHANGED <<isLoaded, pipe, minScore, searchVars, initVars, vaultVars, appVars, unitVars, idbVars, collVars, flowVars>>

\* one turn of reindexStalePrompts' loop: persistPrompt(p) on the queued
\* object, which is the entry of state.prompts unless a save has put another
\* object in its place; a write that throws ends the loop
ReindexStep ==
    /\ reindexQueue # <<>>
    /\ LET queued == Head(reindexQueue)
           idx == FindIndex(prompts, queued.obj.id)
           inState == queued.live /\ idx > 0
           p == IF inState THEN prompts[idx] ELSE queued.obj
       IN  \E embedOk \in BOOLEAN :
            LET q == WithEmbedding(p, isLoaded, embedOk)
            IN  /\ BackendWrite(q)
                /\ prompts' = IF inState THEN [prompts EXCEPT ![idx] = q] ELSE prompts
                /\ currentPrompt' = IF inState /\ editorShared /\ currentPrompt[1].id = q.id
                                    THEN <<q>> ELSE currentPrompt
                /\ reindexQueue' = IF Written THEN Tail(reindexQueue) ELSE <<>>
    /\ UNCHANGED <<filter, semanticMode, searchTimeout, rendered, filtered, semVars, initVars,
                   storageMode, editorShared, inputs, isDirty, idsUsed, unitVars, idbVars, collVars, flowVars>>

\* handleNewPrompt with nothing unsaved, or after "discard" in the unsaved
\* dialog: createNewPrompt
handleNewPrompt ==
    /\ idsUsed < MaxIds
    /\ \E embedOk \in BOOLEAN :
        LET newPrompt == WithEmbedding(createPrompt(idsUsed), isLoaded, embedOk)
        IN  /\ BackendWrite(newPrompt)
            /\ idsUsed' = idsUsed + 1
            /\ IF Written
               THEN /\ prompts' = Append(prompts, newPrompt)
                    /\ LoadEditor(prompts', newPrompt.id)
                    /\ Render(prompts', isLoaded)
               ELSE /\ isDirty' = FALSE
                    /\ UNCHANGED <<prompts, currentPrompt, editorShared, inputs, rendered,
                                   filtered>>
    /\ UNCHANGED <<filter, semanticMode, searchTimeout, semVars, initVars, storageMode,
                   reindexQueue, unitVars, idbVars, collVars, flowVars>>

\* handlePromptSelect(id) with nothing unsaved, on the open prompt, or after
\* "discard" in the unsaved dialog: loadEditor(id)
handlePromptSelect ==
    /\ \E i \in 1..Len(prompts) :
        /\ LoadEditor(prompts, prompts[i].id)
        /\ Render(prompts, isLoaded)
    /\ UNCHANGED <<prompts, filter, semanticMode, searchTimeout, semVars, initVars, vaultVars,
                   storageMode, store, idsUsed, reindexQueue, unitVars, idbVars, collVars, flowVars>>

\* an input event on the title or the body field: setDirty(true)
EditInput ==
    /\ currentPrompt # <<>>
    /\ \E t \in EditTitles, b \in EditTexts :
        /\ inputs' = [inputs EXCEPT !.title = t, !.text = b]
        /\ inputs' # inputs
    /\ isDirty' = TRUE
    /\ UNCHANGED <<searchVars, semVars, initVars, vaultVars, storageMode, store, currentPrompt,
                   editorShared, idsUsed, reindexQueue, unitVars, idbVars, collVars, flowVars>>

\* state.prompts[idx] = p with p another object than the one held so far: a
\* loop that holds the former object keeps it, with the fields it has
Detached(queue, ps, id) ==
    [i \in 1..Len(queue) |->
        IF queue[i].live /\ queue[i].obj.id = id /\ FindIndex(ps, id) > 0
        THEN [obj |-> ps[FindIndex(ps, id)], live |-> FALSE]
        ELSE queue[i]]

\* not the code: the number of the last version is used again
createVersion_SameNumber(prompt) ==
    [version_no |-> IF Len(prompt.versions) > 0
                    THEN prompt.versions[Len(prompt.versions)].version_no ELSE 1,
     prompt_text |-> prompt.prompt_text, notes |-> prompt.notes]

\* PromptService.createVersion(prompt), written out again in saveCurrent: the
\* number after the last version's, 1 for the first
createVersion(prompt) ==
    LET lastVer == IF Len(prompt.versions) > 0
                   THEN prompt.versions[Len(prompt.versions)].version_no ELSE 0
    IN  [version_no |-> lastVer + 1, prompt_text |-> prompt.prompt_text,
         notes |-> prompt.notes]

\* saveCurrent(isVersion) on the form inp: the form goes into
\* state.currentPrompt, then persistPrompt, then the prompt replaces its
\* entry in state.prompts; dirty is state.isDirty when it is called
SaveCurrent(isVersion, inp, dirty) ==
    /\ currentPrompt # <<>>
    /\ \E embedOk \in BOOLEAN :
        LET p0 == currentPrompt[1]
            p1 == [p0 EXCEPT !.title = inp.title, !.description = inp.desc,
                             !.category = inp.cat, !.client = inp.client,
                             !.status = inp.status, !.prompt_text = inp.text,
                             !.tags = inp.tags, !.notes = inp.notes]
            p == IF isVersion
                 THEN [p1 EXCEPT !.versions = Append(@, createVersion(p1))]
                 ELSE p1
            q == WithEmbedding(p, isLoaded, embedOk)
            idx == FindIndex(prompts, q.id)
        IN  /\ isVersion => Len(p0.versions) < MaxVersions
            /\ BackendWrite(q)
            /\ currentPrompt' = <<q>>
            /\ inputs' = inp
            /\ IF Written
               THEN /\ prompts' = IF idx > 0 THEN [prompts EXCEPT ![idx] = q]
                                  ELSE Append(prompts, q)
                    /\ reindexQueue' = IF editorShared THEN reindexQueue
                                       ELSE Detached(reindexQueue, prompts, q.id)
                    /\ editorShared' = TRUE
                    /\ isDirty' = FALSE
                    /\ Render(prompts', isLoaded)
               ELSE /\ prompts' = IF editorShared /\ idx > 0 THEN [prompts EXCEPT ![idx] = q]
                                  ELSE prompts
                    /\ isDirty' = dirty
                    /\ UNCHANGED <<editorShared, rendered, filtered, reindexQueue>>

\* the Save and Save Version buttons
saveCurrent ==
    \E isVersion \in BOOLEAN :
        /\ SaveCurrent(isVersion, inputs, isDirty)
        /\ UNCHANGED <<filter, semanticMode, searchTimeout, semVars, initVars, storageMode,
                       idsUsed, unitVars, idbVars, collVars, flowVars>>

\* `Restored from V${versionNo}: ${ver.notes}`
RestoredNotes(versionNo, notes) ==
    <<"R", "e", "s", "t", "o", "r", "e", "d", " ", "f", "r", "o", "m", " ", "V",
      IF versionNo = 1 THEN "1" ELSE "2", ":", " ">> \o notes

\* restoreVersion(versionNo): the version's text and a note go into the form,
\* setDirty(true), then saveCurrent(true)
restoreVersion ==
    /\ currentPrompt # <<>>
    /\ \E k \in 1..Len(currentPrompt[1].versions) :
        LET ver == currentPrompt[1].versions[k]
        IN  /\ SaveCurrent(TRUE, [inputs EXCEPT !.text = ver.prompt_text,
                                  !.notes = RestoredNotes(ver.version_no, ver.notes)], TRUE)
            /\ UNCHANGED <<filter, semanticMode, searchTimeout, semVars, initVars, storageMode,
                           idsUsed, unitVars, idbVars, collVars, flowVars>>

\* the page is reloaded: new App(), init() up to the start of semantic.init();
\* the store, the directory and the storage mode outlive the page
Reload ==
    LET loaded == IF storageMode = "local" THEN StoreGetAll(store, MaxIds) ELSE <<>>
    IN  /\ prompts' = loaded
        /\ filter' = DefaultFilter /\ semanticMode' = TRUE /\ searchTimeout' = FALSE
        /\ rendered' = [filter |-> DefaultFilter, semanticMode |-> TRUE,
                        minScore |-> DefaultMinScore, queryVec |-> NoVec,
                   embedCalls |-> 0]
        /\ filtered' = filterAndSortPrompts(loaded, DefaultFilter, TRUE, NoVec, FALSE,
                                            DefaultMinScore)
        /\ isLoaded' = FALSE /\ pipe' = FALSE /\ loadError' = FALSE /\ isLoading' = TRUE
        /\ minScore' = DefaultMinScore
        /\ dirHandle' = FALSE /\ isConnected' = FALSE
        /\ fileMap' = [i \in VaultIds |-> NoFile]
        /\ vaultOut' = VaultOut("new", NoText, "returned", FALSE, {}, {}, FALSE, {}, {})
        /\ currentPrompt' = <<>> /\ editorShared' = FALSE /\ inputs' = NoInputs
        /\ isDirty' = FALSE /\ reindexQueue' = <<>>
        /\ collections' = CollectionsGetAll(collectionStore, MaxCollections)
        /\ activeCollectionId' = NoCollection /\ filterSharedWith' = NoCollection
        /\ UNCHANGED <<initVars, dir, storageMode, store, idsUsed, unitVars, idbVars,
                       collectionStore, flowVars>>

AppInit ==
    /\ App_constructor
    /\ isLoaded = FALSE /\ isLoading = TRUE /\ loadError = FALSE /\ pipe = FALSE
    /\ minScore = DefaultMinScore
    /\ NoInitCalls
    /\ unitCall = NoUnitCall
    /\ idb = NoOpen
    /\ NoWrites
    /\ NoCollections
    /\ NoFlows
    /\ VaultRepo_constructor /\ dir = EmptyDir

AppNext ==
    \/ ModelLoads
    \/ ModelFails
    \/ ReindexStep
    \/ handleNewPrompt
    \/ handlePromptSelect
    \/ EditInput
    \/ saveCurrent
    \/ restoreVersion
    \/ Reload

AppSpec == AppInit /\ [][AppNext]_vars

----------------------------------------------------------------------------
(* The collections specification: App's smart collections next to the      *)
(* filter handlers and the editor, in the local storage mode, while the    *)
(* model is still loading.  One prompt is stored when the app starts;      *)
(* another can be added, and either can be edited and saved.               *)

CollectionNames == {<<"N">>}

\* the values the category, client, status and sort selects are set to here
CollectionFilterValues ==
    [category |-> {NoText, <<"X">>}, client |-> {NoText}, status |-> Statuses,
     sort |-> {"date-desc"}]

\* the prompt stored when the app starts
StoredPrompt ==
    [createPrompt(1) EXCEPT !.id = <<"p", "0">>, !.title = <<"A", "b">>,
                            !.category = <<"X">>, !.status = "live"]

\* CollectionService.validateFilters(filters)
validateFilters(filters) ==
    \/ filters.search # NoText \/ filters.category # NoText
    \/ filters.client # NoText \/ filters.status # ""

\* CollectionService.createCollection(generateId, name, filters), which
\* saveSmartCollection writes out in place; n counts the ids given so far
createCollection(n, name, filters) ==
    [id |-> CollectionId(n), name |-> name, filters |-> filters]

\* not the code: the object itself is assigned, no copy of it is made
ObjectSpread_SameObject(owner) == owner

\* { ...obj }, with obj or the result the filters of the collection owner:
\* the result is a new object, so the filters of no collection and
\* state.filter are one object afterwards
ObjectSpread(owner) == NoCollection

\* onFilterChange(field, value), on the values of this specification
onFilterChange ==
    \E f \in { [filter EXCEPT !.category = c] : c \in CollectionFilterValues.category }
         \cup { [filter EXCEPT !.client = c] : c \in CollectionFilterValues.client }
         \cup { [filter EXCEPT !.status = c] : c \in CollectionFilterValues.status }
         \cup { [filter EXCEPT !.sort = c] : c \in CollectionFilterValues.sort } :
        /\ FilterAssigned(f)
        /\ RenderSidebar(f, semanticMode, minScore)
        /\ UNCHANGED <<prompts, semanticMode, searchTimeout, semVars, initVars, vaultVars, appVars, unitVars, idbVars>>

\* applyCollection(collection): state.filter = { ...collection.filters },
\* renderSidebar
ApplyCollection(collection) ==
    /\ activeCollectionId' = collection.id
    /\ filter' = collection.filters
    /\ filterSharedWith' = ObjectSpread(collection.id)
    /\ RenderSidebar(collection.filters, semanticMode, minScore)

\* saveSmartCollection with a name given and some filter set: the collection
\* is put into the store, pushed onto state.collections and applied
saveSmartCollection ==
    /\ Len(collections) < MaxCollections
    /\ validateFilters(filter)
    /\ \E name \in CollectionNames :
        LET held == {collections[i].id : i \in 1..Len(collections)}
            \* generateId gives an id no collection has
            fresh == CHOOSE n \in 0..Len(collections) :
                         /\ CollectionId(n) \notin held
                         /\ \A k \in 0..(n - 1) : CollectionId(k) \in held
            collection == createCollection(fresh, name, filter)
        IN  /\ collectionStore' = {c \in collectionStore : c.id # collection.id} \cup {collection}
            /\ collections' = Append(collections, collection)
            /\ ApplyCollection(collection)
    /\ UNCHANGED <<prompts, semanticMode, searchTimeout, semVars, initVars, vaultVars, appVars,
                   unitVars, idbVars, flowVars>>

\* a click on a collection of the list: applyCollection(c)
applyCollection ==
    /\ \E i \in 1..Len(collections) : ApplyCollection(collections[i])
    /\ UNCHANGED <<prompts, semanticMode, searchTimeout, semVars, initVars, vaultVars, appVars,
                   unitVars, idbVars, collections, collectionStore, flowVars>>

\* deleteCollection(id), confirmed
deleteCollection ==
    /\ \E i \in 1..Len(collections) :
        LET id == collections[i].id
        IN  /\ collectionStore' = {c \in collectionStore : c.id # id}
            /\ collections' = ArrayFilter(collections,
                                          {j \in 1..Len(collections) : collections[j].id # id})
            /\ activeCollectionId' = IF activeCollectionId = id THEN NoCollection
                                     ELSE activeCollectionId
    /\ UNCHANGED <<searchVars, semVars, initVars, vaultVars, appVars, unitVars, idbVars,
                   filterSharedWith, flowVars>>

CollectionInit ==
    /\ prompts = <<StoredPrompt>>
    /\ filter = DefaultFilter
    /\ semanticMode = TRUE
    /\ searchTimeout = FALSE
    /\ rendered = [filter |-> DefaultFilter, semanticMode |-> TRUE,
                   minScore |-> DefaultMinScore, queryVec |-> NoVec,
                   embedCalls |-> 0]
    /\ filtered = filterAndSortPrompts(prompts, DefaultFilter, TRUE, NoVec, FALSE,
                                       DefaultMinScore)
    /\ storageMode = "local"
    /\ store = [i \in {StoredPrompt.id} |-> StoredPrompt]
    /\ currentPrompt = <<>> /\ editorShared = FALSE /\ inputs = NoInputs
    /\ isDirty = FALSE /\ idsUsed = 0 /\ reindexQueue = <<>>
    /\ isLoaded = FALSE /\ isLoading = TRUE /\ loadError = FALSE /\ pipe = FALSE
    /\ minScore = DefaultMinScore
    /\ NoInitCalls
    /\ unitCall = NoUnitCall
    /\ idb = NoOpen
    /\ NoWrites
    /\ NoCollections
    /\ NoFlows
    /\ VaultRepo_constructor /\ dir = EmptyDir

CollectionNext ==
    \/ SearchInput
    \/ SearchTimerFires
    \/ onFilterChange
    \/ saveSmartCollection
    \/ applyCollection
    \/ deleteCollection
    \/ handleNewPrompt
    \/ EditInput
    \/ saveCurrent

CollectionSpec == CollectionInit /\ [][CollectionNext]_vars

----------------------------------------------------------------------------
(* The re-indexing specification: a set of prompts loaded from either      *)
(* backend before the model has finished loading, then semantic.init()'s   *)
(* then-callback and the turns of reindexStalePrompts' loop.  A loaded     *)
(* prompt has no vector, the vector of its text, or the vector of the text *)
(* it had before an edit that was persisted while the model was not loaded.*)

MaxStale == 2

\* the prompts that can be loaded as the n-th of the set
LoadedPool(n) ==
    { [createPrompt(n) EXCEPT !.title = t, !.embedding = e] :
        t \in {NewPromptTitle, <<"a">>}, e \in {NoVec, PipeOutput(NewPromptTitle)} }

LoadedSets ==
    UNION { {ps \in [1..n -> UNION {LoadedPool(k) : k \in 0..(n - 1)}] :
                \A i \in 1..n : ps[i] \in LoadedPool(i - 1)} : n \in 1..MaxStale }

\* App after init() and, in vault mode, connectVault(): the set is loaded
\* and rendered, semantic.init() is in flight
ReindexInit ==
    \E ps \in LoadedSets, mode \in {"local", "vault"} :
        /\ prompts = ps
        /\ storageMode = mode
        /\ filter = DefaultFilter /\ semanticMode = TRUE /\ searchTimeout = FALSE
        /\ rendered = [filter |-> DefaultFilter, semanticMode |-> TRUE,
                       minScore |-> DefaultMinScore, queryVec |-> NoVec, embedCalls |-> 0]
        /\ filtered = filterAndSortPrompts(ps, DefaultFilter, TRUE, NoVec, FALSE,
                                           DefaultMinScore)
        /\ isLoaded = FALSE /\ isLoading = TRUE /\ loadError = FALSE /\ pipe = FALSE
        /\ minScore = DefaultMinScore
        /\ NoInitCalls
        /\ unitCall = NoUnitCall
        /\ idb = NoOpen
        /\ NoWrites
        /\ NoCollections
        /\ NoFlows
        /\ currentPrompt = <<>> /\ editorShared = FALSE /\ inputs = NoInputs
        /\ isDirty = FALSE /\ idsUsed = Len(ps) /\ reindexQueue = <<>>
        /\ IF mode = "vault"
           THEN /\ dirHandle = TRUE /\ isConnected = TRUE
                /\ dir = [n \in {PromptFileName(ps[i]) : i \in 1..Len(ps)} |->
                            <<ps[CHOOSE i \in 1..Len(ps) : PromptFileName(ps[i]) = n]>>]
                /\ fileMap = [id \in VaultIds |->
                                IF \E i \in 1..Len(ps) : ps[i].id = id
                                THEN PromptFileName(ps[FindIndex(ps, id)]) ELSE NoFile]
                /\ vaultOut = VaultOut("loadAll", NoText, "returned", FALSE, {}, {}, TRUE,
                                       {ps[i] : i \in 1..Len(ps)}, {})
                /\ store = [i \in {} |-> <<>>]
           ELSE /\ VaultRepo_constructor /\ dir = EmptyDir
                /\ store = [id \in {ps[i].id : i \in 1..Len(ps)} |-> ps[FindIndex(ps, id)]]

ReindexNext ==
    \/ ModelLoads
    \/ ModelFails
    \/ ReindexStep

ReindexSpec == ReindexInit /\ [][ReindexNext]_vars

----------------------------------------------------------------------------
(* The database specification: IndexedDBRepo.init() against the browser's  *)
(* database.  The database has a stored version (0: not created yet) and a *)
(* set of object stores; other sessions of the app may hold connections to *)
(* it, which they keep until they are closed (the app installs no          *)
(* onversionchange handler).  An open that needs an upgrade while another  *)
(* connection is held fires onblocked and goes on waiting.                 *)

MaxSessions == 3
MaxWrites == 2
WriteKeys == {"k1", "k2"}

\* the databases a session can find: none yet, one an older version of the
\* app left behind (with whichever of its stores it had created), or the
\* current one
FoundDatabases ==
    {Idb(0, {}, 0, "none", FALSE, "none", "", FALSE, <<>>)}
    \cup {Idb(v, s \cup (IF v = DB_VERSION THEN V2Stores ELSE {}), n, "none", FALSE, "none", "",
               FALSE, <<>>) :
            v \in 1..DB_VERSION, s \in SUBSET V1Stores, n \in 0..MaxSessions}

\* init(): indexedDB.open(DB_NAME, DB_VERSION) inside a new Promise
IndexedDBRepo_init ==
    /\ idb.request = "none"
    /\ idb' = [idb EXCEPT !.request = "pending", !.promise = "pending"]
    /\ UNCHANGED <<searchVars, semVars, initVars, vaultVars, appVars, unitVars, collVars, flowVars, objectStores, tx>>

\* request.onblocked: the upgrade waits for the other connections; the
\* handler alerts and returns
onblocked ==
    /\ idb.request = "pending"
    /\ idb.version < DB_VERSION
    /\ idb.others > 0
    /\ idb' = [idb EXCEPT !.request = "blocked", !.blocked = TRUE,
                          !.alerts = Append(@, "Database Update Blocked")]
    /\ UNCHANGED <<searchVars, semVars, initVars, vaultVars, appVars, unitVars, collVars, flowVars, objectStores, tx>>

\* another session is closed and its connection with it
OtherSessionCloses ==
    /\ idb.others > 0
    /\ idb' = [idb EXCEPT !.others = @ - 1]
    /\ UNCHANGED <<searchVars, semVars, initVars, vaultVars, appVars, unitVars, collVars, flowVars, objectStores, tx>>

\* request.onupgradeneeded: every missing store is created, none is removed
onupgradeneeded ==
    /\ idb.request \in {"pending", "blocked"}
    /\ idb.version < DB_VERSION
    /\ idb.others = 0
    /\ idb' = [idb EXCEPT !.request = "upgraded", !.version = DB_VERSION,
                          !.stores = @ \cup V1Stores \cup V2Stores]
    /\ objectStores' = [n \in V1Stores \cup V2Stores |->
                           IF n \in idb.stores THEN objectStores[n] ELSE {}]
    /\ UNCHANGED <<searchVars, semVars, initVars, vaultVars, appVars, unitVars, collVars, flowVars, tx>>

\* request.onsuccess: this.db = the connection; resolve(this.db)
onsuccess ==
    /\ \/ idb.request = "upgraded"
       \/ idb.request = "pending" /\ idb.version = DB_VERSION
    /\ idb' = [idb EXCEPT !.request = "success", !.db = TRUE, !.promise = "resolved",
                          !.value = "db"]
    /\ UNCHANGED <<searchVars, semVars, initVars, vaultVars, appVars, unitVars, collVars, flowVars, objectStores, tx>>

\* request.onerror: alert and reject("DB Error")
onerror ==
    /\ idb.request \in {"pending", "blocked"}
    /\ idb' = [idb EXCEPT !.request = "error", !.promise = "rejected", !.value = "DB Error",
                          !.alerts = Append(@, "Database Error")]
    /\ UNCHANGED <<searchVars, semVars, initVars, vaultVars, appVars, unitVars, collVars, flowVars, objectStores, tx>>

\* the content a store has after op on key k
Applied(op, content, k) ==
    CASE op = "put" -> content \cup {k}
      [] op = "delete" -> content \ {k}
      [] OTHER -> {}

\* inside the new Promise of put, delete and clearAll:
\* db.transaction(names, 'readwrite') and one request per store.
\* transaction() throws for a store the database lacks and for an empty list
\* of stores, which rejects the promise; otherwise the promise waits for
\* tx.oncomplete
Transaction(op, names, k) ==
    IF names = {} \/ ~(names \subseteq idb.stores)
    THEN Tx(op, names, objectStores, objectStores, "threw", "rejected", tx.count + 1)
    ELSE Tx(op, names, objectStores,
            [n \in idb.stores |-> IF n \in names THEN Applied(op, objectStores[n], k)
                                                 ELSE objectStores[n]],
            "active", "pending", tx.count + 1)

\* the repository is open and its last call has settled or been given up
CanWrite == idb.db /\ tx.state # "active" /\ tx.count < MaxWrites

\* put(storeName, item)
put ==
    /\ CanWrite
    /\ \E n \in V1Stores \cup V2Stores, k \in WriteKeys : tx' = Transaction("put", {n}, k)
    /\ UNCHANGED <<searchVars, semVars, initVars, vaultVars, appVars, unitVars, collVars, flowVars, idb, objectStores>>

\* delete(storeName, id)
delete ==
    /\ CanWrite
    /\ \E n \in V1Stores \cup V2Stores, k \in WriteKeys : tx' = Transaction("delete", {n}, k)
    /\ UNCHANGED <<searchVars, semVars, initVars, vaultVars, appVars, unitVars, collVars, flowVars, idb, objectStores>>

\* clearAll(): one transaction over those of the three stores that exist
clearAll ==
    /\ CanWrite
    /\ tx' = Transaction("clearAll", (V1Stores \cup V2Stores) \cap idb.stores, "k1")
    /\ UNCHANGED <<searchVars, semVars, initVars, vaultVars, appVars, unitVars, collVars, flowVars, idb, objectStores>>

\* tx.oncomplete: the transaction's changes are committed together and the
\* handler resolves the promise
oncomplete ==
    /\ tx.state = "active"
    /\ objectStores' = tx.work
    /\ tx' = [tx EXCEPT !.state = "complete", !.promise = "resolved"]
    /\ UNCHANGED <<searchVars, semVars, initVars, vaultVars, appVars, unitVars, collVars, flowVars, idb>>

\* not the code: the clear of the first store is kept when the rest is undone
Rollback_KeepsFirstClear(before, work) ==
    [n \in DOMAIN before |-> IF n = "prompts" THEN work[n] ELSE before[n]]

\* the content of the database after a transaction that did not commit: a
\* transaction is atomic, none of its changes is kept
Rollback(before, work) == before

\* the transaction fails (a request error, the quota, an abort): tx.onerror
\* and tx.onabort have no handler, the promise is left as it is
onabort ==
    /\ tx.state = "active"
    /\ objectStores' = Rollback(tx.before, tx.work)
    /\ tx' = [tx EXCEPT !.state = "aborted"]
    /\ UNCHANGED <<searchVars, semVars, initVars, vaultVars, appVars, unitVars, collVars, flowVars, idb>>

\* the session ends in the middle of the call (the tab is closed or crashes):
\* the transaction is rolled back, the session's connection and promises go
Crash ==
    /\ tx.state = "active"
    /\ objectStores' = Rollback(tx.before, tx.work)
    /\ tx' = [tx EXCEPT !.state = "crashed", !.promise = "none"]
    /\ idb' = [idb EXCEPT !.request = "none", !.db = FALSE, !.promise = "none", !.value = "",
                          !.blocked = FALSE]
    /\ UNCHANGED <<searchVars, semVars, initVars, vaultVars, appVars, unitVars, collVars, flowVars, flowVars>>

\* App's constructor has run; App.init is about to await this.store.init()
IdbInit ==
    /\ isLoaded = FALSE /\ isLoading = FALSE /\ loadError = FALSE /\ pipe = FALSE
    /\ minScore = DefaultMinScore
    /\ NoInitCalls
    /\ unitCall = NoUnitCall
    /\ idb \in FoundDatabases
    /\ objectStores = [n \in idb.stores |-> {"k1"}]
    /\ tx = Tx("none", {}, objectStores, objectStores, "none", "none", 0)
    /\ NoCollections
    /\ NoFlows
    /\ App_constructor
    /\ VaultRepo_constructor /\ dir = EmptyDir

IdbNext ==
    \/ IndexedDBRepo_init
    \/ onblocked
    \/ OtherSessionCloses
    \/ onupgradeneeded
    \/ onsuccess
    \/ onerror
    \/ put
    \/ delete
    \/ clearAll
    \/ oncomplete
    \/ onabort
    \/ Crash

IdbSpec == IdbInit /\ [][IdbNext]_vars

----------------------------------------------------------------------------
(* The ranking specification: SemanticSearch's setThreshold,               *)
(* cosineSimilarity and search called directly on a loaded service, as the *)
(* unit tests do.  A vector is a tuple of tenths; NoVec stands for null,   *)
(* undefined and a prompt without embedding; for search's queryVec it is   *)
(* an embed(query) that gave null.                                         *)

MaxRanked == 2

VNeg == <<-10, 0>>     \* [-1, 0]
RankVectors == {NoVec, V10, V01, V91, VNeg, V100}
RankThresholds == {0, DefaultMinScore, 95}

\* the prompt lists search is called with: { id, embedding }
RankedPrompts ==
    UNION { [1..n -> RankVectors] : n \in 0..MaxRanked }
RankedList(vs) == [i \in 1..Len(vs) |-> [id |-> i, embedding |-> vs[i]]]

\* setThreshold(val)
setThreshold ==
    \E t \in RankThresholds :
        /\ minScore' = t
        /\ unitCall' = UnitCall("setThreshold", NoVec, NoVec, <<>>, t, 0, <<>>)
        /\ UNCHANGED <<isLoaded, isLoading, loadError, pipe, searchVars, initVars, vaultVars,
                       appVars, idbVars, collVars, flowVars>>

\* cosineSimilarity(vecA, vecB)
CallCosineSimilarity ==
    \E a \in RankVectors, b \in RankVectors :
        /\ unitCall' = UnitCall("cosineSimilarity", a, b, <<>>, minScore,
                                cosineSimilarity(a, b), <<>>)
        /\ UNCHANGED <<semVars, searchVars, initVars, vaultVars, appVars, idbVars, collVars, flowVars>>

\* search(query, prompts) with the threshold last set
CallSearch ==
    \E vs \in RankedPrompts, queryVec \in RankVectors :
        /\ unitCall' = UnitCall("search", queryVec, NoVec, RankedList(vs), minScore, 0,
                                SemanticSearch_search(RankedList(vs), queryVec, isLoaded,
                                                      minScore))
        /\ UNCHANGED <<semVars, searchVars, initVars, vaultVars, appVars, idbVars, collVars, flowVars>>

\* the text 'Untitled'
Untitled == <<"U", "n", "t", "i", "t", "l", "e", "d">>

\* not the code: the copy keeps the embedding of the original
duplicatePrompt_KeepsEmbedding(prompt, n) ==
    [prompt EXCEPT !.id = generateId(n),
                   !.title = <<"C", "O", "P", "Y", " ">>
                             \o (IF prompt.title = NoText THEN Untitled
                                 ELSE prompt.title),
                   !.status = "draft", !.date_created = n + 1, !.versions = <<>>]

\* PromptService.duplicatePrompt(prompt, generateId): the spread of prompt
\* with id, title, status, date_created, versions and embedding given anew;
\* date_created counts creations, as in createPrompt
duplicatePrompt(prompt, n) ==
    [prompt EXCEPT !.id = generateId(n),
                   !.title = <<"C", "O", "P", "Y", " ">>
                             \o (IF prompt.title = NoText THEN Untitled
                                 ELSE prompt.title),
                   !.status = "draft", !.date_created = n + 1, !.versions = <<>>,
                   !.embedding = NoVec]

\* the prompts duplicatePrompt is called on
DuplicateInputs ==
    { [createPrompt(0) EXCEPT !.title = t, !.status = st, !.versions = vs, !.embedding = e,
                              !.prompt_text = <<"b">>, !.category = <<"X">>] :
        t \in {NoText, <<"a">>}, st \in {"draft", "live"},
        vs \in {<<>>, <<[version_no |-> 1, prompt_text |-> <<"b">>, notes |-> NoText]>>},
        e \in {NoVec, V10} }

\* duplicatePrompt(prompt, generateId); the call record keeps the argument as
\* passed, the argument object as it is now, and the copy
CallDuplicatePrompt ==
    \E original \in DuplicateInputs :
        /\ unitCall' = UnitCall("duplicatePrompt", NoVec, NoVec, <<original, original>>,
                                minScore, 0, <<duplicatePrompt(original, 1)>>)
        /\ UNCHANGED <<semVars, searchVars, initVars, vaultVars, appVars, idbVars, collVars, flowVars>>

\* later changes to the copy: its title is set and a version is pushed onto
\* its list.  The spread copies references, so an array field that
\* duplicatePrompt did not give anew would be the original's own array
EditCopy ==
    /\ unitCall.op = "duplicatePrompt"
    /\ LET copy == unitCall.results[1]
           shared == {"versions", "embedding"}
                     \ {"id", "title", "status", "date_created", "versions", "embedding"}
           original == unitCall.prompts[2]
       IN  unitCall' = [unitCall EXCEPT
                !.op = "editCopy",
                !.results = <<[copy EXCEPT !.title = <<"a">>,
                                           !.versions = Append(@, createVersion(copy))]>>,
                !.prompts[2] = IF "versions" \in shared
                               THEN [original EXCEPT !.versions = Append(@, createVersion(copy))]
                               ELSE original]
    /\ UNCHANGED <<semVars, searchVars, initVars, vaultVars, appVars, idbVars, collVars, flowVars>>

\* a || b || ... || default: the first of the named fields of p that is
\* there and is not the falsy value of its type ('' for a text, undefined
\* for an array or a date), else the default
RECURSIVE OrElse(_, _, _, _)
OrElse(p, names, falsy, default) ==
    IF names = <<>> THEN default
    ELSE IF Head(names) \in DOMAIN p /\ p[Head(names)] # falsy THEN p[Head(names)]
    ELSE OrElse(p, Tail(names), falsy, default)

\* DataMapper.promptToExport(p)
promptToExport(p) ==
    [id |-> p.id, prompt_id |-> p.id, prompt_title |-> p.title, prompt_desc |-> p.description,
     prompt_text |-> p.prompt_text, tags |-> p.tags, prompt_status |-> p.status,
     notes |-> p.notes, category |-> OrElse(p, <<"category">>, NoText, NoText),
     client |-> OrElse(p, <<"client">>, NoText, NoText), date_created |-> p.date_created,
     versions |-> p.versions, embedding |-> p.embedding]

\* DataMapper.promptFromImport(p); n counts the ids and dates given so far
promptFromImport(p, n) ==
    [id |-> OrElse(p, <<"id", "prompt_id">>, NoText, generateId(n)),
     title |-> OrElse(p, <<"title", "prompt_title">>, NoText, Untitled),
     description |-> OrElse(p, <<"description", "prompt_desc">>, NoText, NoText),
     prompt_text |-> OrElse(p, <<"prompt_text">>, NoText, NoText),
     tags |-> OrElse(p, <<"tags">>, NoText, NoText),
     status |-> OrElse(p, <<"status", "prompt_status">>, "", "draft"),
     notes |-> OrElse(p, <<"notes">>, NoText, NoText),
     category |-> OrElse(p, <<"category">>, NoText, NoText),
     client |-> OrElse(p, <<"client">>, NoText, NoText),
     date_created |-> OrElse(p, <<"date_created">>, 0, n + 1),
     versions |-> OrElse(p, <<"versions">>, <<>>, <<>>),
     embedding |-> OrElse(p, <<"embedding">>, NoVec, NoVec)]

\* a prompt of the application is exported and the export is imported
CallRoundTrip ==
    \E internalPrompt \in DuplicateInputs :
        /\ unitCall' = UnitCall("roundTrip", NoVec, NoVec, <<internalPrompt>>, minScore, 0,
                                <<promptFromImport(promptToExport(internalPrompt), 1)>>)
        /\ UNCHANGED <<semVars, searchVars, initVars, vaultVars, appVars, idbVars, collVars, flowVars>>

\* a service whose init() has resolved true
RankInit ==
    /\ isLoaded = TRUE /\ isLoading = FALSE /\ loadError = FALSE /\ pipe = TRUE
    /\ minScore = DefaultMinScore
    /\ NoInitCalls
    /\ unitCall = NoUnitCall
    /\ idb = NoOpen
    /\ NoWrites
    /\ NoCollections
    /\ NoFlows
    /\ App_constructor
    /\ VaultRepo_constructor /\ dir = EmptyDir

RankNext ==
    \/ setThreshold
    \/ CallCosineSimilarity
    \/ CallSearch
    \/ CallDuplicatePrompt
    \/ CallRoundTrip
    \/ EditCopy

RankSpec == RankInit /\ [][RankNext]_vars

----------------------------------------------------------------------------
(* Properties of the search *)

\* the last call took the semantic branch
RenderedSemantic ==
    rendered.filter.search # NoText /\ isLoaded /\ rendered.semanticMode

\* the prompt passes every active exact filter, field by field
PassesActive(p) ==
    /\ (rendered.filter.category # NoText => p.category = rendered.filter.category)
    /\ (rendered.filter.client # NoText => p.client = rendered.filter.client)
    /\ (rendered.filter.status # "" => p.status = rendered.filter.status)

PassingIds == {prompts[i].id : i \in {k \in 1..Len(prompts) : PassesActive(prompts[k])}}
ResultIds == {filtered[i].id : i \in 1..Len(filtered)}

\* similarity of the prompt to the query vector of the last call
Similarity(p) == cosineSimilarity(rendered.queryVec, p.embedding)

\* the prompt is below the threshold, or has no score at all
BelowThreshold(p) ==
    p.embedding = NoVec \/ rendered.queryVec = NoVec \/ Similarity(p) < rendered.minScore

\* the score a prompt is ranked by: its similarity if it reached the
\* threshold, 0 if it is absent from the semantic results
RankScore(p) == IF BelowThreshold(p) THEN 0 ELSE Similarity(p)

\* C1: in both ranking modes every returned prompt equals each active filter
\* (category, client, status) on the corresponding field.
C1_FiltersAlwaysApplied ==
    \A i \in 1..Len(filtered) :
        /\ (rendered.filter.category # NoText
                => filtered[i].category = rendered.filter.category)
        /\ (rendered.filter.client # NoText
                => filtered[i].client = rendered.filter.client)
        /\ (rendered.filter.status # ""
                => filtered[i].status = rendered.filter.status)

\* C1 witness: a semantic-branch search with an active category filter that
\* kept one prompt and excluded another whose vector matches the query.
C1_Witness ==
    /\ RenderedSemantic
    /\ rendered.queryVec # NoVec
    /\ rendered.filter.category = <<"X">>
    /\ Len(filtered) = 1
    /\ \E i \in 1..Len(prompts) :
        /\ prompts[i].category = <<"Y">>
        /\ ~BelowThreshold(prompts[i])

C10_NotLoadedFallsBackToKeyword ==
    (rendered.semanticMode /\ rendered.filter.search # NoText /\ ~isLoaded) =>
        filtered = filterAndSortPrompts(prompts, rendered.filter, FALSE, NoVec,
                                        isLoaded, rendered.minScore)

\* C10 witness: the model is still loading, semantic mode is on, and the
\* keyword match removed a filter-passing prompt from a non-empty result.
C10_Witness ==
    /\ rendered.semanticMode /\ rendered.filter.search # NoText
    /\ ~isLoaded /\ isLoading
    /\ Len(filtered) = 1
    /\ Cardinality(PassingIds) = 2

\* C11 as claimed: model loaded, semantic mode, a query whose embedding
\* failed (embed gave null): the result is the keyword-mode result for the
\* same query, filters and sort key.
C11_EmbedFailureFallsBackToKeyword ==
    (RenderedSemantic /\ rendered.queryVec = NoVec) =>
        filtered = KeywordBranch(prompts, rendered.filter)

\* C26 as claimed: in the keyword path with a non-empty query, a prompt that
\* passes the filters is returned exactly when the lower-cased query is a
\* substring of one of its lower-cased title, description, body, tags or
\* notes, each field on its own.
C26_KeywordMatchesAnyField ==
    (rendered.filter.search # NoText /\ ~RenderedSemantic) =>
        \A i \in 1..Len(prompts) :
            PassesActive(prompts[i]) =>
                (prompts[i].id \in ResultIds
                 <=> \E field \in {prompts[i].title, prompts[i].description,
                                    prompts[i].prompt_text, prompts[i].tags, prompts[i].notes} :
                        Includes(ToLowerCase(field), ToLowerCase(rendered.filter.search)))

\* C27 as claimed: in the semantic branch the filter-passing prompts that
\* reached the threshold are ranked by their true similarity to the query
\* vector, whatever the number of stored prompts: of two such prompts the one
\* with the higher similarity comes first.
C27_RankedByTrueSimilarity ==
    (RenderedSemantic /\ rendered.queryVec # NoVec) =>
        \A i \in 1..Len(filtered) : \A j \in 1..Len(filtered) :
            (i < j /\ ~BelowThreshold(filtered[i]) /\ ~BelowThreshold(filtered[j]))
                => Similarity(filtered[i]) >= Similarity(filtered[j])

\* the multiset of a list of prompts, as a function prompt -> count
Occurrences(s) ==
    [p \in {s[i] : i \in 1..Len(s)} |-> Cardinality({i \in 1..Len(s) : s[i] = p})]

\* C12: a keyword-mode search with an empty query returns exactly the stored
\* prompts that satisfy the exact filters, each once, and the same prompts
\* under every sort key.
C12_EmptyQueryReturnsFilterSet ==
    (rendered.filter.search = NoText /\ ~rendered.semanticMode) =>
        /\ Occurrences(filtered)
             = Occurrences(ArrayFilter(prompts, {i \in 1..Len(prompts) :
                                                    PassesActive(prompts[i])}))
        /\ \A k \in SortKeys :
             Occurrences(filterAndSortPrompts(prompts, [rendered.filter EXCEPT !.sort = k],
                                              FALSE, NoVec, isLoaded, rendered.minScore))
               = Occurrences(filtered)

\* C12 witness: keyword mode, empty query, sorted by name; the category
\* filter kept one prompt and removed the other, and the stored order of a
\* full result would have been changed by the sort.
C12_Witness ==
    /\ rendered.filter.search = NoText /\ ~rendered.semanticMode
    /\ rendered.filter.sort = "name-asc"
    /\ rendered.filter.category = <<"X">>
    /\ Len(prompts) = 2 /\ Len(filtered) = 1
    /\ filtered[1] = prompts[2]
    /\ LocaleCompare(prompts[2].title, prompts[1].title) < 0

\* C13: with an empty query a search in semantic mode returns the list a
\* keyword-mode search returns (same members, same order) and calls embed
\* not once.
C13_EmptyQuerySemanticIsKeyword ==
    (rendered.filter.search = NoText /\ rendered.semanticMode) =>
        /\ filtered = filterAndSortPrompts(prompts, rendered.filter, FALSE, NoVec, isLoaded,
                                           rendered.minScore)
        /\ rendered.embedCalls = 0

\* C13 witness: model loaded, semantic mode, empty query, sorted by name: the
\* result holds both prompts in the reverse of their stored order.
C13_Witness ==
    /\ rendered.filter.search = NoText /\ rendered.semanticMode /\ isLoaded
    /\ rendered.filter.sort = "name-asc"
    /\ Len(prompts) = 2 /\ Len(filtered) = 2
    /\ filtered[1] = prompts[2] /\ filtered[2] = prompts[1]
    /\ prompts[1].embedding # NoVec /\ prompts[2].embedding # NoVec

\* C16 as claimed: a step that changes the threshold (the slider's handler:
\* setThreshold, then renderSidebar) makes no embed call.
C16_ThresholdChangeEmbedsNothing ==
    [][minScore' # minScore => rendered'.embedCalls = 0]_vars

----------------------------------------------------------------------------
(* Properties of SemanticSearch.init *)

\* C9: at most one pipeline() call is in flight; a call made while a load is
\* in flight returns false and starts none; a call made after a load has
\* succeeded starts none.
C9_SingleLoadInFlight ==
    /\ pipelineCalls <= 1
    /\ Cardinality({c \in Callers : initPc[c] = "awaiting"}) = pipelineCalls
    /\ (isLoaded => pipelineCalls = 0)
    /\ (lastInit.op = "init" /\ lastInit.sawLoading /\ ~lastInit.sawLoaded)
            => (~lastInit.started /\ lastInit.returned = "false")
    /\ (lastInit.op = "init" /\ lastInit.sawLoaded)
            => (~lastInit.started /\ lastInit.returned = "true")

\* C9 witness: a caller is awaiting the load it started and the last init()
\* call, made by another caller meanwhile, returned false without loading.
C9_Witness ==
    /\ pipelineCalls = 1
    /\ lastInit.op = "init" /\ lastInit.sawLoading /\ ~lastInit.started
    /\ \E c \in Callers : initPc[c] = "awaiting" /\ c # lastInit.caller
    /\ initResult[lastInit.caller] = "false"

----------------------------------------------------------------------------
(* Properties of VaultRepo *)

SaveOps == {"savePrompt", "saveTemplate"}
DeleteOps == {"deletePrompt", "deleteTemplate"}
ReadOps == {"loadAll", "getAllPrompts", "getAllTemplates"}

\* C3 as claimed: once savePrompt has returned, exactly one file of the
\* directory parses to the saved id, and it is the file named after the
\* saved title; no file under an older name is left.
C3_RenameLeavesOneFile ==
    (vaultOut.op = "savePrompt" /\ vaultOut.status = "returned") =>
        FilesWithId(dir, vaultOut.id) = {fileMap[vaultOut.id]}

\* C6 as claimed: after deleteFile(id) on a selected directory no file with
\* that id remains; an indexed file is deleted without a scan, an id without
\* an entry is looked up by a scan; only files of that id are removed.
C6_DeleteRemovesEveryFileOfId ==
    (vaultOut.op \in DeleteOps /\ dirHandle) =>
        /\ vaultOut.status = "returned"
        /\ FilesWithId(dir, vaultOut.id) = {}
        /\ vaultOut.scanned => vaultOut.removed \subseteq vaultOut.before
        /\ ~vaultOut.scanned => (vaultOut.hadEntry /\ Cardinality(vaultOut.removed) = 1)
        /\ ~vaultOut.hadEntry => vaultOut.scanned

\* C7 as claimed: with no directory selected every mutating call throws and
\* every read-only call returns empty lists.
C7_NotConnectedFailsFast ==
    ~dirHandle =>
        /\ vaultOut.op \in (SaveOps \cup DeleteOps) => vaultOut.status = "threw"
        /\ vaultOut.op \in ReadOps =>
              (vaultOut.status = "returned" /\ vaultOut.prompts = {}
               /\ vaultOut.templates = {})

\* C8 as claimed: a save of a document that has a file but no index entry
\* replaces that file: afterwards one file holds the id.
C8_UnindexedSaveReplaces ==
    (vaultOut.op \in SaveOps /\ vaultOut.status = "returned"
     /\ ~vaultOut.hadEntry /\ Cardinality(vaultOut.before) = 1) =>
        Cardinality(FilesWithId(dir, vaultOut.id)) = 1

\* C23 as claimed, for the vault: once savePrompt(D) has returned, a listing
\* of the directory yields exactly one prompt with D's id, and it is D as
\* written (the content of the file the index names).
C23_UpsertThenListGivesOne ==
    (vaultOut.op = "savePrompt" /\ vaultOut.status = "returned") =>
        {j \in ParsedDocs(dir) : "prompt_text" \in DOMAIN j /\ j.id = vaultOut.id}
            = {dir[fileMap[vaultOut.id]][1]}

----------------------------------------------------------------------------
(* Properties of App's persistence *)

\* the prompts either backend holds
PersistedPrompts ==
    {store[i] : i \in DOMAIN store}
    \cup {j \in ParsedDocs(dir) : "prompt_text" \in DOMAIN j}

\* C2: every persisted prompt that carries an embedding carries the one
\* computed from its current title, description, notes and body
C2_EmbeddingMatchesCurrentText ==
    \A p \in PersistedPrompts :
        p.embedding # NoVec => p.embedding = PipeOutput(TextToEmbed(p))

\* every prompt the app holds: in state.prompts, in the editor, in the store
HeldPrompts ==
    {prompts[i] : i \in 1..Len(prompts)} \cup {store[i] : i \in DOMAIN store}
    \cup {currentPrompt[i] : i \in 1..Len(currentPrompt)}

\* C24: in every version list the version numbers are 1, 2, ..., n in list
\* order, after any sequence of saves, version saves and restores.
C24_VersionNumbersCountUp ==
    \A p \in HeldPrompts : \A k \in 1..Len(p.versions) : p.versions[k].version_no = k

\* C24's case: a stored prompt with two versions, the second made by a
\* restore of the first, after a save that made no version
C24_Witness ==
    \E i \in DOMAIN store :
        /\ Len(store[i].versions) = 2
        /\ store[i].versions[2].notes = RestoredNotes(1, store[i].versions[1].notes)
        /\ store[i].title # NewPromptTitle

\* list a is a prefix of list b
IsPrefix(a, b) == Len(a) <= Len(b) /\ SubSeq(b, 1, Len(a)) = a

\* C25 as claimed: no step removes, reorders or changes a version record of
\* a stored prompt; the version list of a stored prompt only grows at its end.
C25_VersionsAppendOnly ==
    [][\A i \in DOMAIN store :
          i \in DOMAIN store' /\ IsPrefix(store[i].versions, store'[i].versions)]_vars

----------------------------------------------------------------------------
(* Properties of SemanticSearch's ranking functions *)

\* the ids of a result list of search
IdsOf(results) == {results[i].id : i \in 1..Len(results)}

\* what search returns for the prompts and query of the last call at
\* threshold t
SearchAt(t) ==
    SemanticSearch_search(unitCall.prompts, unitCall.vecA, isLoaded, t)

\* C14: for the query vector and prompts of a search, a higher threshold
\* never gives more results, and every result at the higher threshold is a
\* result at the lower one.
C14_ThresholdMonotone ==
    unitCall.op = "search" =>
        /\ unitCall.results = SearchAt(unitCall.minScore)
        /\ \A t \in RankThresholds :
            /\ t > unitCall.minScore =>
                  (Len(SearchAt(t)) <= Len(unitCall.results)
                   /\ IdsOf(SearchAt(t)) \subseteq IdsOf(unitCall.results))
            /\ t < unitCall.minScore =>
                  (Len(unitCall.results) <= Len(SearchAt(t))
                   /\ IdsOf(unitCall.results) \subseteq IdsOf(SearchAt(t)))

\* C14 witness: at threshold 0.95 one of two scored prompts is returned, at
\* threshold 0 both are.
C14_Witness ==
    /\ unitCall.op = "search" /\ unitCall.minScore = 95
    /\ Len(unitCall.results) = 1
    /\ Len(SearchAt(0)) = 2

\* C15 as claimed: at threshold 0 every prompt that has a vector is in the
\* result of search, whatever its score.
C15_ZeroThresholdAdmitsAll ==
    (unitCall.op = "search" /\ unitCall.minScore = 0 /\ unitCall.vecA # NoVec) =>
        \A i \in 1..Len(unitCall.prompts) :
            unitCall.prompts[i].embedding # NoVec
                => unitCall.prompts[i].id \in IdsOf(unitCall.results)

\* the sum of the products of the components, by index
RECURSIVE SumProducts(_, _, _)
SumProducts(a, b, n) == IF n = 0 THEN 0 ELSE a[n] * b[n] + SumProducts(a, b, n - 1)

----------------------------------------------------------------------------
(* Properties of the background re-indexing *)

\* C18 as claimed: a turn of the re-indexing loop whose persist failed
\* leaves every remaining stale prompt queued for its own turn.
C18_ReindexContinuesAfterFailure ==
    [][(reindexQueue # <<>> /\ reindexQueue' # reindexQueue /\ vaultOut'.status = "threw")
          => reindexQueue' = Tail(reindexQueue)]_vars

\* C19 as claimed, as the final result of the loop: once the model is loaded
\* and the loop has run to its end with every write returned, every loaded
\* prompt that carries a vector carries the vector of its current text.
C19_StaleVectorsRecomputed ==
    (isLoaded /\ reindexQueue = <<>> /\ vaultOut.status = "returned") =>
        \A i \in 1..Len(prompts) :
            prompts[i].embedding # NoVec
                => prompts[i].embedding = PipeOutput(TextToEmbed(prompts[i]))

----------------------------------------------------------------------------
(* Properties of IndexedDBRepo.init *)

\* C20 as claimed: once the open has been blocked by another session's
\* older-version connection, init()'s promise is rejected with an error of
\* its own, distinct from the "DB Error" of a failed connection.
C20_BlockedOpenIsReported ==
    idb.blocked => (idb.promise = "rejected" /\ idb.value # "DB Error")

\* C21 as claimed: a write whose transaction failed or aborted has had its
\* promise rejected.
C21_FailedWriteRejects ==
    tx.state = "aborted" => tx.promise = "rejected"

\* the stores clearAll spans all hold content c
AllStoresHold(c) == \A n \in tx.names : objectStores[n] = c[n]

\* C22: whatever became of a clearAll (still running, committed, aborted, or
\* cut short by a crash), the stores it spans are either all as they were
\* when it was called or all empty; never some cleared and others not.
C22_ClearAllIsAtomic ==
    tx.op = "clearAll" =>
        \/ AllStoresHold(tx.before)
        \/ AllStoresHold([n \in tx.names |-> {}])

\* C22's case: a clearAll over three stores with content was cut short by a
\* crash and the three stores still hold their content
C22_Witness ==
    /\ tx.op = "clearAll" /\ tx.state = "crashed"
    /\ tx.names = V1Stores \cup V2Stores
    /\ \A n \in tx.names : tx.before[n] # {} /\ objectStores[n] # {}

----------------------------------------------------------------------------
(* Properties of PromptService.duplicatePrompt *)

\* a duplicatePrompt call has been made: its argument as passed, the argument
\* object now, and the copy
Duplicated == unitCall.op \in {"duplicatePrompt", "editCopy"}

----------------------------------------------------------------------------
(* Properties of DataMapper *)

\* C29: promptFromImport(promptToExport(p)) equals p on id, title,
\* description, prompt_text, tags, status, notes, category, client,
\* date_created, versions and embedding.
C29_ExportImportIsIdentity ==
    unitCall.op = "roundTrip" =>
        \A f \in {"id", "title", "description", "prompt_text", "tags", "status", "notes",
                   "category", "client", "date_created", "versions", "embedding"} :
            unitCall.results[1][f] = unitCall.prompts[1][f]

----------------------------------------------------------------------------
(* Properties of the smart collections *)

\* C30: a saved collection keeps the filters it was saved with whatever is
\* done to the live filter afterwards, and while a collection is applied the
\* sidebar lists what those filters give on the prompts as they are now.
C30_CollectionKeepsOwnFilters ==
    [][/\ \A i \in 1..Len(collections), j \in 1..Len(collections') :
            collections[i].id = collections'[j].id
                => collections'[j].filters = collections[i].filters
       /\ \A j \in 1..Len(collections') :
            collections'[j].id = activeCollectionId'
                => /\ filter' = collections'[j].filters
                   /\ filtered' = filterAndSortPrompts(prompts', collections'[j].filters,
                                       rendered'.semanticMode, rendered'.queryVec, isLoaded',
                                       rendered'.minScore)]_vars

\* C30's case: a collection saved while one prompt was stored is applied
\* after the live filter was changed and a prompt was added and edited; its
\* filters are the saved ones and the added prompt is listed
C30_Witness ==
    /\ Len(collections) = 1
    /\ activeCollectionId = collections[1].id
    /\ collections[1].filters.search # NoText
    /\ rendered.filter = collections[1].filters
    /\ Len(prompts) = 2
    /\ Len(filtered) = 2


----------------------------------------------------------------------------
(* VaultRepo.loadAll(), read by read: the scan collects the handles of the
   .json files, then reads them in batches; every read is a promise that
   settles on its own, in any order *)
BATCH_SIZE == 50

\* the longest mixed directory, and the directories of equal files that fill
\* one batch, overflow it by one file and need a third batch
MaxScanFiles == 3
CrowdSizes == {BATCH_SIZE, BATCH_SIZE + 1, 2 * BATCH_SIZE + 1}

ScanPrompt == [id |-> <<"p", "1">>, title |-> <<"D">>, prompt_text |-> <<"x">>]
ScanTemplate == [id |-> <<"p", "1">>, description |-> <<"F">>, template_text |-> <<"y">>]
ScanBoth == [id |-> <<"p", "2">>, title |-> <<"D">>, prompt_text |-> <<"x">>,
             template_text |-> <<"y">>]
ScanNeither == [id |-> <<"p", "2">>, title |-> <<"D">>]
ScanNoId == [title |-> <<"D">>, prompt_text |-> <<"x">>]

\* a directory entry: the extension of its name and its content; <<>> is a
\* file that cannot be read or whose text JSON.parse rejects
ScanEntries ==
    {[ext |-> ".json", content |-> c] :
        c \in {<<ScanPrompt>>, <<ScanTemplate>>, <<ScanBoth>>, <<ScanNeither>>, <<>>}}
    \cup {[ext |-> ".txt", content |-> <<ScanPrompt>>]}

RECURSIVE Listings(_)
Listings(n) ==
    IF n = 0 THEN {<<>>}
    ELSE Listings(n - 1)
         \cup {Append(l, e) : l \in {m \in Listings(n - 1) : Len(m) = n - 1}, e \in ScanEntries}

\* the k-th entry dirHandle.values() yields is named f<k><ext>
ScanName(k, ext) == <<"f", k, ext>>
ScanDir(listing) ==
    [n \in {ScanName(k, listing[k].ext) : k \in 1..Len(listing)} |-> listing[n[2]].content]

ScanDirs ==
    {ScanDir(l) : l \in Listings(MaxScanFiles)}
    \cup {ScanDir([k \in 1..n |-> [ext |-> ".json", content |-> <<ScanNoId>>]]) : n \in CrowdSizes}

\* entry.name.endsWith('.json')
IsJson(name) == name[3] = ".json"

\* the handles the first loop of loadAll() collects, in the order of the listing
FileHandles(d) ==
    LET json == {n \in DOMAIN d : IsJson(n)}
    IN  [j \in 1..Cardinality(json) |->
            CHOOSE n \in json : Cardinality({m \in json : m[2] < n[2]}) = j - 1]

\* fileHandles.slice(i, i + BATCH_SIZE) ends here
BatchEnd_WholeList(i, n) == n
BatchEnd(i, n) == IF i + BATCH_SIZE < n THEN i + BATCH_SIZE ELSE n

\* what the callback of one read does once the file is parsed: which of
\* fileMap, prompts and templates receive the document
Sorted(json) ==
    [index |-> "id" \in DOMAIN json,
     prompt |-> "prompt_text" \in DOMAIN json,
     template |-> "prompt_text" \notin DOMAIN json /\ "template_text" \in DOMAIN json]

\* the try { ... } catch of the callback: an exception of the read or of
\* JSON.parse ends that callback with a warning, so its promise still resolves
ReadThrew_Uncaught == "rejected"
ReadThrew == "skipped"

\* a read in flight, as far as its completion matters: the name is kept only
\* when the callback will store it in fileMap
ReadOf(d, name) ==
    [name |-> IF d[name] # <<>> /\ Sorted(d[name][1]).index THEN name ELSE NoFile,
     content |-> d[name]]

\* loadAll() is called with a directory selected: the index is cleared and the
\* handles are collected
loadAll_Collect ==
    /\ dirHandle
    /\ scan.pc \in {"idle", "done"}
    /\ fileMap' = [i \in VaultIds |-> NoFile]
    /\ scan' = [pc |-> "reading",
                fileHandles |-> FileHandles(dir),
                i |-> 0,
                pending |-> EmptyBag,
                reads |-> [n \in DOMAIN dir |-> 0],
                prompts |-> <<>>,
                templates |-> <<>>]
    /\ UNCHANGED <<dirHandle, isConnected, dir, vaultOut, calls, heap, view, handled, searchVars, semVars,
                   initVars, appVars, unitVars, idbVars, collVars>>

\* the Promise.all of the previous batch has resolved: batch.map starts one
\* read per handle of the next batch
loadAll_StartBatch ==
    /\ scan.pc = "reading"
    /\ scan.pending = EmptyBag
    /\ scan.i < Len(scan.fileHandles)
    /\ LET last == BatchEnd(scan.i, Len(scan.fileHandles))
           batch == {scan.fileHandles[k] : k \in (scan.i + 1)..last}
           kinds == {ReadOf(dir, n) : n \in batch}
       IN  scan' = [scan EXCEPT
                       !.i = scan.i + BATCH_SIZE,
                       !.pending = [r \in kinds |->
                                       Cardinality({n \in batch : ReadOf(dir, n) = r})],
                       !.reads = [n \in DOMAIN dir |->
                                     IF n \in batch THEN scan.reads[n] + 1 ELSE scan.reads[n]]]
    /\ UNCHANGED <<vaultVars, calls, heap, view, handled, searchVars, semVars, initVars, appVars, unitVars,
                   idbVars, collVars>>

\* one read of the batch settles: a file that cannot be read or parsed lands
\* in the catch, any other is indexed and sorted into one of the lists
loadAll_ReadSettles ==
    /\ scan.pc = "reading"
    /\ \E r \in BagToSet(scan.pending) :
          LET rest == scan.pending (-) SetToBag({r})
          IN  IF r.content = <<>>
              THEN /\ scan' = [scan EXCEPT !.pending = rest,
                                           !.pc = IF ReadThrew = "skipped" THEN @ ELSE "threw"]
                   /\ UNCHANGED fileMap
              ELSE LET json == r.content[1]
                       to == Sorted(json)
                   IN  /\ fileMap' = IF to.index
                                     THEN [fileMap EXCEPT ![json.id] = r.name]
                                     ELSE fileMap
                       /\ scan' = [scan EXCEPT
                                      !.pending = rest,
                                      !.prompts = IF to.prompt THEN Append(@, json) ELSE @,
                                      !.templates = IF to.template THEN Append(@, json) ELSE @]
    /\ UNCHANGED <<dirHandle, isConnected, dir, vaultOut, calls, heap, view, handled, searchVars, semVars,
                   initVars, appVars, unitVars, idbVars, collVars>>

\* the loop is over: loadAll() returns { prompts, templates }
loadAll_Return ==
    /\ scan.pc = "reading"
    /\ scan.pending = EmptyBag
    /\ scan.i >= Len(scan.fileHandles)
    /\ scan' = [scan EXCEPT !.pc = "done"]
    /\ UNCHANGED <<vaultVars, calls, heap, view, handled, searchVars, semVars, initVars, appVars, unitVars,
                   idbVars, collVars>>

ScanInit ==
    /\ dirHandle = TRUE
    /\ isConnected = TRUE
    /\ fileMap = [i \in VaultIds |-> NoFile]
    /\ dir \in ScanDirs
    /\ vaultOut = [op |-> "new", id |-> NoText, status |-> "returned", hadEntry |-> FALSE,
                   before |-> {}, removed |-> {}, scanned |-> FALSE, prompts |-> {},
                   templates |-> {}]
    /\ App_constructor
    /\ SemanticSearch_constructor
    /\ NoInitCalls
    /\ unitCall = NoUnitCall
    /\ idb = NoOpen
    /\ NoWrites
    /\ NoCollections
    /\ NoFlows

ScanNext ==
    \/ loadAll_Collect
    \/ loadAll_StartBatch
    \/ loadAll_ReadSettles
    \/ loadAll_Return

ScanSpec == ScanInit /\ [][ScanNext]_vars

-----------------------------------------------------------------------------
(* App's handlers, await by await.  state.prompts and state.currentPrompt
   hold objects: an object is named by its place in heap, so that two handlers
   holding the same object see each other's assignments.  The backends do not
   fail and the pipeline does not throw in this specification *)

MaxCalls == 2      \* handlers between two awaits at one time
MaxFlowIds == 3    \* ids handed out: those of the two stored prompts and one more
MaxClicks == 4     \* clicks that start a handler

FlowIds == {generateId(n) : n \in 0..(MaxFlowIds - 1)}

\* what the user types into the title field
FlowTitles == {<<"a">>, <<"b">>}

\* the two prompts of the library; the second was saved while the model was
\* not loaded and has no embedding yet
StoredA == [createPrompt(0) EXCEPT !.title = <<"a">>, !.embedding = PipeOutput(<<"a">>)]
StoredB == [createPrompt(1) EXCEPT !.title = <<"b">>]

\* the backup file handleImportFull reads: an export of the library
Backup == <<promptToExport(StoredA), promptToExport(StoredB)>>

\* App.state and the handlers in flight, as one value the handlers transform
Now ==
    [heap |-> heap, prompts |-> prompts, cur |-> currentPrompt, calls |-> calls,
     inputs |-> inputs, isDirty |-> isDirty, view |-> view, idsUsed |-> idsUsed]

\* the objects state.prompts, state.currentPrompt or a handler in flight hold
Refs(n) ==
    {n.prompts[i] : i \in 1..Len(n.prompts)}
    \cup {n.cur[i] : i \in 1..Len(n.cur)}
    \cup UNION {({n.calls[k].obj} \ {0})
                \cup {n.calls[k].rest[j] : j \in 1..Len(n.calls[k].rest)} :
                k \in 1..Len(n.calls)}

\* the assignments of a handler take effect; the objects nothing refers to
\* any more leave the heap and the others move up
Commit(n) ==
    LET reach == Refs(n)
        place(r) == IF r = 0 THEN 0 ELSE Cardinality({q \in reach : q <= r})
    IN  /\ heap' = [i \in 1..Cardinality(reach) |->
                       n.heap[CHOOSE r \in reach : place(r) = i]]
        /\ prompts' = [i \in 1..Len(n.prompts) |-> place(n.prompts[i])]
        /\ currentPrompt' = [i \in 1..Len(n.cur) |-> place(n.cur[i])]
        /\ calls' = [k \in 1..Len(n.calls) |->
                        [n.calls[k] EXCEPT !.obj = place(@),
                                           !.rest = [j \in 1..Len(@) |-> place(@[j])]]]
        /\ inputs' = n.inputs
        /\ isDirty' = n.isDirty
        /\ view' = n.view
        /\ idsUsed' = n.idsUsed

\* state.currentPromptId, <<>> for null
CurrentPromptId(n) == IF n.cur = <<>> THEN <<>> ELSE n.heap[n.cur[1]].id

\* a handler between two awaits: the await it is at (pc), the object it holds,
\* the storage mode when it began, and what persistPrompt has read so far
Call(op, pc, obj) ==
    [op |-> op, pc |-> pc, obj |-> obj, text |-> NoText, mode |-> storageMode,
     embedded |-> FALSE, vec |-> NoVec, backend |-> "", doc |-> <<>>, file |-> NoFile,
     old |-> NoFile, id |-> <<>>, rest |-> <<>>, then |-> ""]

\* a handler whose awaited call threw does not run on
AddCall(cs, c) == IF c.pc = "threw" THEN cs ELSE Append(cs, c)
PutCall(cs, k, c) ==
    IF c.pc = "threw" THEN SubSeq(cs, 1, k - 1) \o SubSeq(cs, k + 1, Len(cs))
    ELSE [cs EXCEPT ![k] = c]
DropCall(cs, k) == SubSeq(cs, 1, k - 1) \o SubSeq(cs, k + 1, Len(cs))

\* persistPrompt from `if (this.state.storageMode === VAULT)` on, up to the
\* next await: store.put clones the prompt as it is now; vault.savePrompt
\* throws without a directory, else names the file after the title as it is
\* now and looks up the file the index holds for the id
WriteBegins(c, value, mode, fm) ==
    IF mode = "vault"
    THEN IF ~dirHandle THEN [c EXCEPT !.pc = "threw"]
         ELSE [c EXCEPT !.pc = "write", !.backend = "vault",
                        !.file = PromptFileName(value), !.old = fm[value.id]]
    ELSE [c EXCEPT !.pc = "write", !.backend = "local", !.doc = <<value>>]

\* persistPrompt(prompt) up to its first await: semantic.embed when the model
\* is loaded and there is text, the backend call otherwise
persistPrompt(op, obj, value, mode, fm) ==
    LET c == [Call(op, "embed", obj) EXCEPT !.text = TextToEmbed(value)]
    IN  IF isLoaded /\ c.text # NoText THEN c ELSE WriteBegins(c, value, mode, fm)

\* loadEditor(id): a clone of the stored prompt goes to the editor
loadEditor(n, id) ==
    LET hits == {i \in 1..Len(n.prompts) : n.heap[n.prompts[i]].id = id}
    IN  IF hits = {} THEN n
        ELSE LET prompt == n.heap[n.prompts[CHOOSE i \in hits : \A j \in hits : i <= j]]
             IN  [n EXCEPT !.heap = Append(@, prompt),
                           !.cur = <<Len(n.heap) + 1>>,
                           !.isDirty = FALSE,
                           !.inputs = InputsOf(prompt),
                           !.view.editor = TRUE]

\* createNewPrompt() up to its await
createNewPrompt(n, fm) ==
    LET newPrompt == createPrompt(n.idsUsed)
    IN  [n EXCEPT !.heap = Append(@, newPrompt),
                  !.idsUsed = @ + 1,
                  !.calls = AddCall(@, persistPrompt("createNewPrompt", Len(n.heap) + 1,
                                                     newPrompt, storageMode, fm))]

\* navigatePending()
navigatePending(n, fm) ==
    IF n.view.pendingNavigation # <<>>
    THEN [loadEditor(n, n.view.pendingNavigation) EXCEPT !.view.pendingNavigation = <<>>]
    ELSE IF n.view.pendingNew
    THEN [createNewPrompt(n, fm) EXCEPT !.view.pendingNew = FALSE]
    ELSE n

\* saveCurrent(false) up to its await: the editor's object takes the values of
\* the form, then persistPrompt(p)
saveCurrent_ToAwait(n, then) ==
    LET obj == n.cur[1]
        p == [n.heap[obj] EXCEPT !.title = n.inputs.title, !.description = n.inputs.desc,
                                 !.category = n.inputs.cat, !.client = n.inputs.client,
                                 !.status = n.inputs.status, !.prompt_text = n.inputs.text,
                                 !.tags = n.inputs.tags, !.notes = n.inputs.notes]
        c == [persistPrompt("saveCurrent", obj, p, storageMode, fileMap) EXCEPT !.then = then]
    IN  [n EXCEPT !.heap[obj] = p, !.calls = AddCall(@, c)]

\* reindexStalePrompts(): the stale prompts are persisted one after another
reindexStalePrompts_ToAwait(n, loaded, mode, fm) ==
    LET stalePrompts == ArrayFilter(n.prompts, {i \in 1..Len(n.prompts) :
                                                  n.heap[n.prompts[i]].embedding = NoVec})
    IN  IF ~loaded \/ stalePrompts = <<>> THEN n
        ELSE [n EXCEPT !.calls =
                 AddCall(@, [persistPrompt("reindexStalePrompts", Head(stalePrompts),
                                           n.heap[Head(stalePrompts)], mode, fm)
                             EXCEPT !.rest = Tail(stalePrompts)])]

\* a click reaches the page: no modal dialog is open and no loading overlay
\* covers it
UserCan == ~view.modal /\ ~view.loading

\* the user clicks, within the number of clicks of this specification
Click == UserCan /\ handled.clicks < MaxClicks

\* the user may start another handler within the bounds of this specification
Room(k) == Len(calls) + k <= MaxCalls

\* what no handler of this specification assigns
FlowRest ==
    UNCHANGED <<filter, semanticMode, searchTimeout, rendered, filtered, semVars, initVars,
                dirHandle, editorShared, reindexQueue, unitVars, idbVars, collVars, scan>>

\* the ghost of a step of a handler that the user did not start with this step
Handled(op, step) == [NoHandler EXCEPT !.op = op, !.step = step, !.clicks = handled.clicks]

\* the ghost of a handler the user starts with a click
Clicked(op, step) ==
    [NoHandler EXCEPT !.op = op, !.step = step, !.clicks = handled.clicks + 1]

\* the title field of the open editor is typed in: setDirty(true)
input_Title ==
    /\ UserCan /\ view.editor
    /\ currentPrompt # <<>>
    /\ \E t \in FlowTitles :
          /\ t # inputs.title
          /\ inputs' = [inputs EXCEPT !.title = t]
    /\ isDirty' = TRUE
    /\ UNCHANGED <<prompts, currentPrompt, idsUsed, calls, heap, view, handled, storageMode,
                   isConnected, store, dir, fileMap, vaultOut>>
    /\ FlowRest

\* a click on a prompt of the sidebar
handlePromptSelect_Click ==
    /\ Click
    /\ \E i \in 1..Len(prompts) :
          LET id == heap[prompts[i]].id
          IN  Commit(IF isDirty /\ CurrentPromptId(Now) # id
                     THEN [Now EXCEPT !.view.pendingNavigation = id, !.view.modal = TRUE]
                     ELSE loadEditor(Now, id))
    /\ handled' = Clicked("handlePromptSelect", "returned")
    /\ UNCHANGED <<storageMode, isConnected, store, dir, fileMap, vaultOut>>
    /\ FlowRest

\* a button of the unsaved-changes modal; saveCurrent throws on a null
\* currentPrompt before its first await
resolveUnsaved ==
    /\ view.modal /\ handled.clicks < MaxClicks
    /\ \E action \in {"save", "discard"} :
          LET closed == [Now EXCEPT !.view.modal = FALSE]
          IN  IF action = "save"
              THEN /\ Room(1)
                   /\ Commit(IF currentPrompt = <<>> THEN closed
                             ELSE saveCurrent_ToAwait(closed, "navigatePending"))
              ELSE /\ (view.pendingNavigation = <<>> /\ view.pendingNew)
                          => (Room(1) /\ idsUsed < MaxFlowIds)
                   /\ Commit(navigatePending([closed EXCEPT !.isDirty = FALSE], fileMap))
    /\ handled' = Clicked("resolveUnsaved", "returned")
    /\ UNCHANGED <<storageMode, isConnected, store, dir, fileMap, vaultOut>>
    /\ FlowRest

\* the New button
handleNewPrompt_Click ==
    /\ Click
    /\ IF isDirty
       THEN Commit([Now EXCEPT !.view.pendingNew = TRUE, !.view.modal = TRUE])
       ELSE /\ Room(1) /\ idsUsed < MaxFlowIds
            /\ Commit(createNewPrompt(Now, fileMap))
    /\ handled' = Clicked("handleNewPrompt", "returned")
    /\ UNCHANGED <<storageMode, isConnected, store, dir, fileMap, vaultOut>>
    /\ FlowRest

\* the Duplicate button, up to the await of persistPrompt(newPrompt)
handleDuplicatePrompt_Begins ==
    /\ Click /\ view.editor
    /\ currentPrompt # <<>>
    /\ Room(1) /\ idsUsed < MaxFlowIds
    /\ LET newPrompt == duplicatePrompt(heap[currentPrompt[1]], idsUsed)
       IN  Commit([Now EXCEPT
                      !.heap = Append(@, newPrompt),
                      !.idsUsed = @ + 1,
                      !.calls = AddCall(@, persistPrompt("handleDuplicatePrompt", Len(heap) + 1,
                                                         newPrompt, storageMode, fileMap))])
    /\ handled' = Clicked("handleDuplicatePrompt", "began")
    /\ UNCHANGED <<storageMode, isConnected, store, dir, fileMap, vaultOut>>
    /\ FlowRest

\* the Save button, up to the await of persistPrompt(p)
saveCurrent_Begins ==
    /\ Click /\ view.editor
    /\ currentPrompt # <<>>
    /\ Room(1)
    /\ Commit(saveCurrent_ToAwait(Now, ""))
    /\ handled' = Clicked("saveCurrent", "began")
    /\ UNCHANGED <<storageMode, isConnected, store, dir, fileMap, vaultOut>>
    /\ FlowRest

\* semantic.embed(textToEmbed) resolves for one of the handlers awaiting it:
\* prompt.embedding is assigned and persistPrompt runs on to its backend call
embed_Resolves ==
    /\ \E k \in 1..Len(calls) :
          /\ calls[k].pc = "embed"
          /\ LET c == calls[k]
                 vec == PipeOutput(c.text)
                 value == [heap[c.obj] EXCEPT !.embedding = vec]
             IN  /\ Commit([Now EXCEPT
                               !.heap[c.obj] = value,
                               !.calls = PutCall(@, k, WriteBegins(
                                            [c EXCEPT !.embedded = TRUE, !.vec = vec],
                                            value, storageMode, fileMap))])
                 /\ handled' = Handled(c.op, "embedded")
    /\ UNCHANGED <<storageMode, isConnected, store, dir, fileMap, vaultOut>>
    /\ FlowRest

\* the backend call of persistPrompt completes.  store.put writes the clone it
\* took; vault.savePrompt removes the file of the old name, if there is one,
\* and writeFile writes JSON.stringify of the prompt as it is by now
WriteCompletes(c) ==
    LET doc == IF c.backend = "local" THEN c.doc[1] ELSE heap[c.obj]
    IN  /\ IF c.backend = "local"
           THEN /\ store' = [i \in (DOMAIN store) \cup {doc.id} |->
                                IF i = doc.id THEN doc ELSE store[i]]
                /\ UNCHANGED <<dir, fileMap>>
           ELSE /\ dir' = PutEntry(IF c.old # NoFile /\ c.old # c.file /\ c.old \in DOMAIN dir
                                   THEN RemoveEntry(dir, c.old) ELSE dir,
                                   c.file, <<doc>>)
                /\ fileMap' = [fileMap EXCEPT ![doc.id] = c.file]
                /\ UNCHANGED store
        /\ handled' = [NoHandler EXCEPT !.op = c.op, !.step = "written", !.id = doc.id,
                                        !.doc = <<doc>>, !.embedded = c.embedded,
                                        !.vec = c.vec, !.mode = c.mode,
                                        !.backend = c.backend, !.clicks = handled.clicks]
        /\ UNCHANGED <<storageMode, isConnected, vaultOut>>

\* saveCurrent after its await: p replaces the stored prompt of its id, or is
\* pushed; setDirty(false); then navigatePending() when the modal asked for it
saveCurrent_Returns ==
    /\ \E k \in 1..Len(calls) :
          /\ calls[k].op = "saveCurrent" /\ calls[k].pc = "write"
          /\ (calls[k].then # "" /\ view.pendingNavigation = <<>> /\ view.pendingNew)
                 => idsUsed < MaxFlowIds
          /\ WriteCompletes(calls[k])
          /\ LET p == calls[k].obj
                 hits == {i \in 1..Len(prompts) : heap[prompts[i]].id = heap[p].id}
                 idx == IF hits = {} THEN 0 ELSE CHOOSE i \in hits : \A j \in hits : i <= j
                 saved == [Now EXCEPT
                              !.prompts = IF idx > 0 THEN [@ EXCEPT ![idx] = p]
                                          ELSE Append(@, p),
                              !.isDirty = FALSE,
                              !.calls = DropCall(@, k)]
             IN  Commit(IF calls[k].then = "" THEN saved
                        ELSE navigatePending(saved, fileMap'))
    /\ FlowRest

\* createNewPrompt after its await: push, loadEditor(newPrompt.id)
createNewPrompt_Returns ==
    /\ \E k \in 1..Len(calls) :
          /\ calls[k].op = "createNewPrompt" /\ calls[k].pc = "write"
          /\ WriteCompletes(calls[k])
          /\ Commit(loadEditor([Now EXCEPT !.prompts = Append(@, calls[k].obj),
                                           !.calls = DropCall(@, k)],
                               heap[calls[k].obj].id))
    /\ FlowRest

\* handleDuplicatePrompt after its await: push, loadEditor(newPrompt.id)
handleDuplicatePrompt_Returns ==
    /\ \E k \in 1..Len(calls) :
          /\ calls[k].op = "handleDuplicatePrompt" /\ calls[k].pc = "write"
          /\ WriteCompletes(calls[k])
          /\ Commit(loadEditor([Now EXCEPT !.prompts = Append(@, calls[k].obj),
                                           !.calls = DropCall(@, k)],
                               heap[calls[k].obj].id))
    /\ FlowRest

\* the loop of reindexStalePrompts after an await: persistPrompt of the next
\* stale prompt, or the end of the loop
reindexStalePrompts_Next ==
    /\ \E k \in 1..Len(calls) :
          /\ calls[k].op = "reindexStalePrompts" /\ calls[k].pc = "write"
          /\ WriteCompletes(calls[k])
          /\ LET c == calls[k]
             IN  Commit([Now EXCEPT !.calls =
                    IF c.rest = <<>> THEN DropCall(@, k)
                    ELSE PutCall(@, k, [persistPrompt("reindexStalePrompts", Head(c.rest),
                                                      heap[Head(c.rest)], storageMode, fileMap')
                                        EXCEPT !.rest = Tail(c.rest), !.mode = c.mode])])
    /\ FlowRest

\* the place of an id among those generateId hands out
IdPlace(id) == CHOOSE n \in 0..MaxFlowIds : generateId(n) = id

\* the documents of a set as an array, in the order of their ids
ById(docs) ==
    CHOOSE s \in [1..Cardinality(docs) -> docs] :
        /\ {s[i] : i \in 1..Cardinality(docs)} = docs
        /\ \A i \in 1..Cardinality(docs) : \A j \in 1..Cardinality(docs) :
               i < j => IdPlace(s[i].id) <= IdPlace(s[j].id)

\* loadData() up to its first await: vault.loadAll() begins with
\* fileMap.clear(); a vault that is not connected gives empty lists at once
loadData_ToAwait(n, mode, connected, then) ==
    IF mode = "vault" /\ ~connected
    THEN [n EXCEPT !.prompts = <<>>, !.view.loading = FALSE]
    ELSE [n EXCEPT !.view.loading = TRUE,
                   !.calls = Append(@, [Call("loadData", "load", 0) EXCEPT
                                           !.mode = mode, !.backend = mode, !.then = then])]

\* the Local / Vault switch
toggleStorageMode ==
    /\ Click
    /\ LET newMode == IF storageMode = "local" THEN "vault" ELSE "local"
           reset == [Now EXCEPT !.cur = <<>>, !.view.editor = FALSE]
       IN  /\ storageMode' = newMode
           /\ IF newMode = "local"
              THEN /\ Room(1)
                   /\ Commit(loadData_ToAwait(reset, newMode, isConnected, "renderSidebar"))
                   /\ UNCHANGED isConnected
              ELSE /\ isConnected' = FALSE
                   /\ Commit([reset EXCEPT !.prompts = <<>>])
    /\ handled' = Clicked("toggleStorageMode", "returned")
    /\ UNCHANGED <<store, dir, fileMap, vaultOut>>
    /\ FlowRest

\* store.getAll('prompts') or vault.loadAll() resolves: state.prompts is
\* assigned fresh objects, reindexStalePrompts() is called and not awaited, and
\* the overlay is removed
loadData_Returns ==
    /\ \E k \in 1..Len(calls) :
          /\ calls[k].op = "loadData" /\ calls[k].pc = "load"
          /\ LET c == calls[k]
                 docs == IF c.backend = "local" THEN ById({store[i] : i \in DOMAIN store})
                         ELSE ById({j \in ParsedDocs(dir) : "prompt_text" \in DOMAIN j})
                 loaded == [Now EXCEPT
                               !.heap = @ \o docs,
                               !.prompts = [i \in 1..Len(docs) |-> Len(heap) + i],
                               !.calls = DropCall(@, k),
                               !.view.loading = FALSE]
             IN  /\ IF c.backend = "vault"
                    THEN \E fm \in [FlowIds -> (DOMAIN dir) \cup {NoFile}] :
                            /\ \A i \in FlowIds :
                                  IF FilesWithId(dir, i) = {} THEN fm[i] = NoFile
                                  ELSE fm[i] \in FilesWithId(dir, i)
                            /\ fileMap' = fm
                    ELSE UNCHANGED fileMap
                 /\ Commit(reindexStalePrompts_ToAwait(loaded, isLoaded, storageMode,
                                                       fileMap'))
    /\ handled' = Handled("loadData", "returned")
    /\ UNCHANGED <<storageMode, isConnected, store, dir, vaultOut>>
    /\ FlowRest

\* the Delete button, confirmed, up to the await of removePrompt
deleteCurrentPrompt_Begins ==
    /\ Click /\ view.editor
    /\ currentPrompt # <<>>
    /\ Room(1)
    /\ Commit([Now EXCEPT !.calls = Append(@, [Call("deleteCurrentPrompt", "remove", 0) EXCEPT
                                                  !.id = CurrentPromptId(Now),
                                                  !.backend = storageMode])])
    /\ handled' = Clicked("deleteCurrentPrompt", "began")
    /\ UNCHANGED <<storageMode, isConnected, store, dir, fileMap, vaultOut>>
    /\ FlowRest

\* removePrompt resolves: the stored prompts lose those whose id is
\* state.currentPromptId as it is by now, and the editor is hidden
deleteCurrentPrompt_Returns ==
    /\ \E k \in 1..Len(calls) :
          /\ calls[k].op = "deleteCurrentPrompt" /\ calls[k].pc = "remove"
          /\ LET c == calls[k]
                 kept == ArrayFilter(prompts, {i \in 1..Len(prompts) :
                                                 heap[prompts[i]].id # CurrentPromptId(Now)})
             IN  /\ IF c.backend = "local"
                    THEN /\ store' = [i \in (DOMAIN store) \ {c.id} |-> store[i]]
                         /\ UNCHANGED <<dir, fileMap, vaultOut, dirHandle, isConnected>>
                    ELSE /\ DeleteFile("deletePrompt", c.id)
                         /\ UNCHANGED store
                 /\ Commit([Now EXCEPT !.prompts = kept, !.calls = DropCall(@, k),
                                       !.view.editor = FALSE])
                 /\ handled' = [NoHandler EXCEPT
                                   !.op = "deleteCurrentPrompt", !.step = "removed",
                                   !.id = c.id, !.mode = c.mode, !.backend = c.backend,
                                   !.clicks = handled.clicks,
                                   !.removed = {heap[prompts[i]].id : i \in 1..Len(prompts)}
                                               \ {heap[kept[i]].id : i \in 1..Len(kept)}]
    /\ UNCHANGED storageMode
    /\ UNCHANGED <<filter, semanticMode, searchTimeout, rendered, filtered, semVars, initVars,
                   editorShared, reindexQueue, unitVars, idbVars, collVars, scan>>

\* the prompts.map(p => this.persistPrompt(p)) of handleImportFull: every
\* persistPrompt runs to its first await before Promise.all is awaited
RECURSIVE ImportPersists(_, _, _, _)
ImportPersists(n, ps, mode, fm) ==
    IF ps = <<>> THEN n
    ELSE ImportPersists(
             [n EXCEPT !.heap = Append(@, Head(ps)),
                       !.calls = AddCall(@, persistPrompt("handleImportFull", Len(n.heap) + 1,
                                                          Head(ps), mode, fm))],
             Tail(ps), mode, fm)

ImportedPrompts == [i \in 1..Len(Backup) |-> promptFromImport(Backup[i], idsUsed)]

\* a backup file is chosen and the import confirmed: in local mode
\* store.clearAll() is awaited first
handleImportFull_Confirmed ==
    /\ Click
    /\ Room(Len(Backup))
    /\ LET covered == [Now EXCEPT !.view.loading = TRUE]
       IN  Commit(IF storageMode = "local"
                  THEN [covered EXCEPT !.calls = Append(@, Call("handleImportFull", "clear", 0))]
                  ELSE ImportPersists(covered, ImportedPrompts, storageMode, fileMap))
    /\ handled' = Clicked("handleImportFull", "began")
    /\ UNCHANGED <<storageMode, isConnected, store, dir, fileMap, vaultOut>>
    /\ FlowRest

\* store.clearAll() resolves
handleImportFull_Cleared ==
    /\ \E k \in 1..Len(calls) :
          /\ calls[k].op = "handleImportFull" /\ calls[k].pc = "clear"
          /\ store' = [i \in {} |-> <<>>]
          /\ Commit(ImportPersists([Now EXCEPT !.calls = DropCall(@, k)], ImportedPrompts,
                                   storageMode, fileMap))
    /\ handled' = Handled("handleImportFull", "cleared")
    /\ UNCHANGED <<storageMode, isConnected, dir, fileMap, vaultOut>>
    /\ FlowRest

\* one persistPrompt of the import resolves; when it is the last, Promise.all
\* resolves and loadData() is awaited
handleImportFull_Persisted ==
    /\ \E k \in 1..Len(calls) :
          /\ calls[k].op = "handleImportFull" /\ calls[k].pc = "write"
          /\ WriteCompletes(calls[k])
          /\ LET rest == [Now EXCEPT !.calls = DropCall(@, k)]
             IN  Commit(IF \E j \in 1..Len(rest.calls) : rest.calls[j].op = "handleImportFull"
                        THEN rest
                        ELSE loadData_ToAwait(rest, storageMode, isConnected, "renderSidebar"))
    /\ FlowRest

\* the application is running on a library of two prompts, in either storage
\* mode, with a directory chosen earlier in the session and the model loaded
FlowInit ==
    /\ storageMode \in {"local", "vault"}
    /\ heap = <<StoredA, StoredB>>
    /\ prompts = <<1, 2>>
    /\ currentPrompt = <<>>
    /\ calls = <<>>
    /\ view = NoView
    /\ handled = NoHandler
    /\ scan = NoScan
    /\ inputs = NoInputs
    /\ isDirty = FALSE
    /\ idsUsed = 2
    /\ editorShared = FALSE
    /\ reindexQueue = <<>>
    /\ dirHandle = TRUE
    /\ isConnected = (storageMode = "vault")
    /\ store = IF storageMode = "local"
               THEN [i \in {StoredA.id, StoredB.id} |->
                        IF i = StoredA.id THEN StoredA ELSE StoredB]
               ELSE [i \in {} |-> <<>>]
    /\ dir = IF storageMode = "vault"
             THEN [f \in {PromptFileName(StoredA), PromptFileName(StoredB)} |->
                      IF f = PromptFileName(StoredA) THEN <<StoredA>> ELSE <<StoredB>>]
             ELSE EmptyDir
    /\ fileMap = [i \in FlowIds |->
                     IF storageMode = "vault" /\ i \in {StoredA.id, StoredB.id}
                     THEN PromptFileName(IF i = StoredA.id THEN StoredA ELSE StoredB)
                     ELSE NoFile]
    /\ vaultOut = VaultOut("new", NoText, "returned", FALSE, {}, {}, FALSE, {}, {})
    /\ filter = DefaultFilter
    /\ semanticMode = TRUE
    /\ searchTimeout = FALSE
    /\ rendered = [filter |-> DefaultFilter, semanticMode |-> TRUE,
                   minScore |-> DefaultMinScore, queryVec |-> NoVec, embedCalls |-> 0]
    /\ filtered = <<>>
    /\ isLoaded = TRUE /\ isLoading = FALSE /\ loadError = FALSE /\ pipe = TRUE
    /\ minScore = DefaultMinScore
    /\ NoInitCalls
    /\ unitCall = NoUnitCall
    /\ idb = NoOpen
    /\ NoWrites
    /\ NoCollections

FlowNext ==
    \/ input_Title
    \/ handlePromptSelect_Click
    \/ resolveUnsaved
    \/ handleNewPrompt_Click
    \/ handleDuplicatePrompt_Begins
    \/ saveCurrent_Begins
    \/ embed_Resolves
    \/ saveCurrent_Returns
    \/ createNewPrompt_Returns
    \/ handleDuplicatePrompt_Returns
    \/ reindexStalePrompts_Next
    \/ toggleStorageMode
    \/ loadData_Returns
    \/ deleteCurrentPrompt_Begins
    \/ deleteCurrentPrompt_Returns
    \/ handleImportFull_Confirmed
    \/ handleImportFull_Cleared
    \/ handleImportFull_Persisted

FlowSpec == FlowInit /\ [][FlowNext]_vars


-----------------------------------------------------------------------------
(* Properties of the order of the semantic result *)

\* where the prompt stands in the stored list
StoredIndex(p) == CHOOSE k \in 1..Len(prompts) : prompts[k].id = p.id

\* C35 as claimed: in the semantic branch a prompt of the result has a rank
\* score (its similarity, 0 below the threshold) greater than that of every
\* prompt after it, or the same rank score and an earlier place in the stored
\* list
C35_RankIsStable ==
    RenderedSemantic =>
        \A i \in 1..Len(filtered) : \A j \in 1..Len(filtered) :
            i < j =>
                \/ RankScore(filtered[i]) > RankScore(filtered[j])
                \/ /\ RankScore(filtered[i]) = RankScore(filtered[j])
                   /\ StoredIndex(filtered[i]) < StoredIndex(filtered[j])

-----------------------------------------------------------------------------
(* Properties of the scan of VaultRepo.loadAll *)

ReadsInFlight == IF scan.pc = "reading" THEN BagCardinality(scan.pending) ELSE 0

\* C33: during loadAll() at most BATCH_SIZE reads are in flight, a batch is
\* started only when no read of an earlier batch is still in flight, no file is
\* read twice, and when loadAll() returns every .json file was read once and no
\* other file was read
C33_ReadsAreBatched ==
    [][/\ ReadsInFlight' <= BATCH_SIZE
       /\ (scan.pc = "reading" /\ scan'.pc = "reading" /\ scan'.reads # scan.reads)
              => ReadsInFlight = 0
       /\ scan'.pc # "idle" => \A n \in DOMAIN dir : scan'.reads[n] <= 1
       /\ scan'.pc = "done" =>
              \A n \in DOMAIN dir : scan'.reads[n] = IF IsJson(n) THEN 1 ELSE 0]_vars

\* a directory of three batches was scanned to the end
C33_Witness ==
    /\ scan.pc = "done"
    /\ Len(scan.fileHandles) = 2 * BATCH_SIZE + 1
    /\ Len(scan.prompts) = 2 * BATCH_SIZE + 1

Count(s, x) == Cardinality({k \in 1..Len(s) : s[k] = x})
ParseableFiles(d) == {n \in DOMAIN d : IsJson(n) /\ d[n] # <<>>}

\* C34: loadAll() is never rejected, and when it returns each document of a
\* .json file that parses is in prompts once per file if it has prompt_text,
\* in templates once per file if it has template_text and no prompt_text, and
\* in neither list otherwise; the lists hold nothing else
C34_ScanSkipsBadFiles ==
    /\ scan.pc # "threw"
    /\ scan.pc = "done" =>
          /\ \A n \in ParseableFiles(dir) :
                LET doc == dir[n][1]
                    files == Cardinality({m \in ParseableFiles(dir) : dir[m][1] = doc})
                    isPrompt == "prompt_text" \in DOMAIN doc
                    isTemplate == ~isPrompt /\ "template_text" \in DOMAIN doc
                IN  /\ Count(scan.prompts, doc) = IF isPrompt THEN files ELSE 0
                    /\ Count(scan.templates, doc) = IF isTemplate THEN files ELSE 0
          /\ Len(scan.prompts) + Len(scan.templates) <= Cardinality(ParseableFiles(dir))

\* a scan returned a prompt and a template from a directory that also holds a
\* file that does not parse
C34_Witness ==
    /\ scan.pc = "done"
    /\ \E n \in DOMAIN dir : IsJson(n) /\ dir[n] = <<>>
    /\ Len(scan.prompts) = 1
    /\ Len(scan.templates) = 1

----------------------------------------------------------------------------
(* Properties of VaultRepo's index and of failed saves *)
\* C36: after every VaultRepo call, each entry id -> file name of the index
\* names a file of the directory that parses and whose id is that id.
C36_IndexNamesFilesOfId ==
    \A i \in VaultIds :
        fileMap[i] # NoFile =>
            /\ fileMap[i] \in DOMAIN dir
            /\ fileMap[i] \in FilesWithId(dir, i)

\* C37: when savePrompt or saveTemplate of a document that had a file fails,
\* a file holding the document's id is still in the directory.
C37_FailedSaveKeepsAFile ==
    (/\ vaultOut.op \in {"savePrompt", "saveTemplate"}
     /\ vaultOut.status = "threw"
     /\ vaultOut.before # {})
        => FilesWithId(dir, vaultOut.id) # {}

-----------------------------------------------------------------------------
(* Properties of App's handlers in flight *)

\* C31 as claimed: a persistPrompt call that computed an embedding wrote a
\* document that carries that embedding
C31_WrittenCarriesOwnEmbedding ==
    (handled.step = "written" /\ handled.embedded)
        => handled.doc[1].embedding = handled.vec

\* the calls in flight on the VaultRepo instance: savePrompt, deleteFile, loadAll
VaultCallsInFlight ==
    {k \in 1..Len(calls) : calls[k].backend = "vault"
                           /\ calls[k].pc \in {"write", "remove", "load"}}

\* C32 as claimed: at most one call is in flight on the VaultRepo instance
C32_OneVaultCallAtATime == Cardinality(VaultCallsInFlight) <= 1

\* C38 as claimed: persistPrompt writes to the backend of the storage mode in
\* which the save, creation, import or reindexing it belongs to began
C38_WrittenToBackendOfStart ==
    handled.step = "written" => handled.backend = handled.mode

MemoryIds == {heap[prompts[i]].id : i \in 1..Len(prompts)}
BackendIds ==
    IF storageMode = "local" THEN DOMAIN store
    ELSE {j.id : j \in {d \in ParsedDocs(dir) : "prompt_text" \in DOMAIN d}}

\* C39 as claimed: when deleteCurrentPrompt returns, the prompt it removed from
\* state.prompts is the one it deleted from the backend, and with no other
\* handler in flight and the storage mode unchanged the ids in memory are
\* those of the backend
C39_RemovedIsDeleted ==
    (handled.op = "deleteCurrentPrompt" /\ handled.step = "removed") =>
        /\ handled.removed = {handled.id}
        /\ (calls = <<>> /\ storageMode = handled.mode) => MemoryIds = BackendIds

EditorId == IF currentPrompt = <<>> THEN <<>> ELSE heap[currentPrompt[1]].id

\* C40 as claimed: while isDirty, a step replaces the prompt of the editor or
\* resets isDirty only if it is the user's choice in the unsaved-changes modal
\* or a save
C40_DirtyEditorIsKept ==
    [][(isDirty /\ (EditorId' # EditorId \/ ~isDirty'))
          => handled'.op \in {"resolveUnsaved", "saveCurrent"}]_vars

====
